---- MODULE Spec2Model ----
(***************************************************************************)
(* A model of ci/build_test.py: the platform and python-version            *)
(* eligibility tests and install_requirements, the routine that sends      *)
(* every requirement token to conda, pacman (MSYS2) or pip/pipenv.         *)
(*                                                                         *)
(* Python strings are sequences of one-character strings, so that split,   *)
(* startswith, slicing, lower and replace are modelled by what they do.    *)
(* None is the empty tuple <<>> and a present value x is <<x>>.            *)
(***************************************************************************)
EXTENDS Integers, Sequences, FiniteSets, TLC

VARIABLES
    PLATFORM,           \* family of sysconfig.get_platform(): its prefix
    IS_CONDA,           \* Path(sys.prefix, "conda-meta").is_dir()
    IS_FINAL_VERSION,   \* sys.version_info.releaselevel == "final"
    PIP_UPGRADE,        \* truthiness of os.environ.get("PIP_UPGRADE", False)
    PIPENV_ACTIVE,      \* bool(os.environ.get("PIPENV_ACTIVE", 0))
    version_info,       \* sys.version_info[:3]
    call,               \* the function entered and its arguments
    ret,                \* what the call returned, Pending before it has
    requires,           \* install_requirements: tokens not yet iterated
    extra_index_url,    \* install_requirements: the extra index urls
    installed_packages, \* install_requirements: the report
    conda_pkgs,         \* install_requirements: the conda batch
    pip_pkgs,           \* install_requirements: the pip batch
    pc,                 \* install_requirements: the subprocess it waits for
    req,                \* the token of the current iteration
    dir,                \* the fields parsed from req, require included
    packages,           \* MSYS2: the candidate names of the directive
    idx,                \* MSYS2: candidate in turn; conda: extra url in turn
    args,               \* the argument list built for the next command
    installed,          \* the loop's flag `installed`
    log,                \* history: every subprocess.run with its outcome
    batch_reqs          \* history: the tokens behind pip_pkgs / conda_pkgs

envVars  == <<PLATFORM, IS_CONDA, IS_FINAL_VERSION, PIP_UPGRADE,
              PIPENV_ACTIVE, version_info>>
callVars == <<call, ret>>
runVars  == <<requires, extra_index_url, installed_packages, conda_pkgs,
              pip_pkgs, pc, req, dir, packages, idx, args, installed, log,
              batch_reqs>>
vars     == <<envVars, callVars, runVars>>

----------------------------------------------------------------------------
(* Bounds of the model.                                                    *)

MaxTags == 2        \* tags in an enumerated platform constraint
MaxPatch == 2       \* largest patch number of an enumerated version constraint
MaxReqs == 2        \* tokens in one call of install_requirements
MaxManagedReqs == 1 \* the same when conda or pacman installs
MaxExtra == 1       \* urls in extra_index_url

----------------------------------------------------------------------------
(* Python values.                                                          *)

None == <<>>
Some(x) == <<x>>
Pending == None

\* str.startswith(prefix)
StartsWith(s, prefix) ==
    /\ Len(s) >= Len(prefix)
    /\ SubSeq(s, 1, Len(prefix)) = prefix

\* s[n:]
SliceFrom(s, n) == SubSeq(s, n + 1, Len(s))

\* c in s, for a one-character c
Contains(s, c) == \E i \in 1..Len(s) : s[i] = c

\* s.find(c) + 1 when c occurs in s
FirstIndex(s, c) == CHOOSE i \in 1..Len(s) :
    /\ s[i] = c
    /\ \A j \in 1..(i - 1) : s[j] # c

\* str.split(sep) for a one-character separator: never an empty list
RECURSIVE Split(_, _)
Split(s, sep) ==
    IF ~Contains(s, sep)
    THEN <<s>>
    ELSE LET i == FirstIndex(s, sep)
         IN  <<SubSeq(s, 1, i - 1)>> \o Split(SliceFrom(s, i), sep)

\* str.split(sep, 1)
Split1(s, sep) ==
    IF ~Contains(s, sep)
    THEN <<s>>
    ELSE LET i == FirstIndex(s, sep)
         IN  <<SubSeq(s, 1, i - 1), SliceFrom(s, i)>>

\* sep.join(parts)
RECURSIVE Join(_, _)
Join(parts, sep) ==
    IF parts = <<>> THEN <<>>
    ELSE IF Len(parts) = 1 THEN parts[1]
    ELSE parts[1] \o <<sep>> \o Join(Tail(parts), sep)

\* the set of the elements of a list
Elems(list) == {list[i] : i \in 1..Len(list)}

----------------------------------------------------------------------------
(* Platform tags and the platform in use.                                  *)

TagLinux   == <<"l", "i", "n", "u", "x">>
TagMacos   == <<"m", "a", "c", "o", "s">>
TagMingw   == <<"m", "i", "n", "g", "w">>
TagWindows == <<"w", "i", "n", "d", "o", "w", "s">>

\* PLATFORM is kept by the prefix the IS_ flags test
PlatformFamilies == {"linux", "macos", "mingw", "win"}

IS_LINUX   == PLATFORM = "linux"
IS_MACOS   == PLATFORM = "macos"
IS_MINGW   == PLATFORM = "mingw"
IS_WINDOWS == PLATFORM = "win"

\* the default of platform_in_use
DefaultPlatformInUse ==
    IF IS_MACOS THEN TagMacos
    ELSE IF IS_MINGW THEN TagMingw
    ELSE IF IS_WINDOWS THEN TagWindows
    ELSE TagLinux

\* An argument `str | list[str] | None` carries its Python type.
PyNone      == [kind |-> "none", val |-> <<>>]
PyStr(s)    == [kind |-> "str", val |-> s]
PyList(l)   == [kind |-> "list", val |-> l]

\* platform = platform.split(",") for a str; `not platform` afterwards
PlatformList(platform) ==
    IF platform.kind = "str" THEN Split(platform.val, ",") ELSE platform.val

PlatformYes(plats) == {p \in Elems(plats) : ~StartsWith(p, <<"!">>)}

PlatformNot(plats) ==
    {SliceFrom(p, 1) : p \in {q \in Elems(plats) : StartsWith(q, <<"!">>)}}

is_supported_platform(platform, platform_in_use) ==
    LET plats == PlatformList(platform)
        in_use == IF platform_in_use = None THEN DefaultPlatformInUse
                  ELSE platform_in_use[1]
        universe == {TagLinux, TagMacos, TagMingw, TagWindows}
        yes == PlatformYes(plats)
        support == IF yes # {} THEN yes ELSE universe
    IN  IF plats = <<>> THEN TRUE
        ELSE in_use \in (support \ PlatformNot(plats))

----------------------------------------------------------------------------
(* is_supported_python.  The model covers constraint strings over the      *)
(* characters 0-9 . < > = ! ~ space and the two quote characters.          *)

Digits == <<"0", "1", "2", "3", "4", "5", "6", "7", "8", "9">>
DigitSet == Elems(Digits)
DigitVal(c) == (CHOOSE n \in 1..10 : Digits[n] = c) - 1

\* the first position from i on whose character is not in set
Skip(s, i, set) == CHOOSE j \in i..(Len(s) + 1) :
    /\ \A k \in i..(j - 1) : s[k] \in set
    /\ j = Len(s) + 1 \/ s[j] \notin set

\* RE_PYTHON_VERSION matched at position i:
\*   \s*\"*\'*(\d+)\.*(\d*)\.*(\d*)\"*\'*
\* Every quantifier is greedy and all that follows (\d+) may match the
\* empty string, so the match is found without backtracking.
ReMatchAt(s, i) ==
    LET p  == Skip(s, Skip(s, Skip(s, i, {" ", "\t"}), {"\""}), {"'"})
        d1 == Skip(s, p, DigitSet)
        q1 == Skip(s, d1, {"."})
        d2 == Skip(s, q1, DigitSet)
        q2 == Skip(s, d2, {"."})
        d3 == Skip(s, q2, DigitSet)
        e  == Skip(s, Skip(s, d3, {"\""}), {"'"})
    IN  [matched |-> d1 > p,
         groups  |-> <<SubSeq(s, p, d1 - 1), SubSeq(s, q1, d2 - 1),
                       SubSeq(s, q2, d3 - 1)>>,
         end     |-> e]

\* RE_PYTHON_VERSION.split(s): the text before each match, then its groups
RECURSIVE ReSplit(_)
ReSplit(s) ==
    LET starts == {i \in 1..Len(s) : ReMatchAt(s, i).matched}
    IN  IF starts = {} THEN <<s>>
        ELSE LET i == CHOOSE k \in starts : \A l \in starts : k <= l
                 m == ReMatchAt(s, i)
             IN  <<SubSeq(s, 1, i - 1)>> \o m.groups
                     \o ReSplit(SliceFrom(s, m.end - 1))

\* int(num) for a string of decimal digits
RECURSIVE IntOf(_)
IntOf(num) ==
    IF num = <<>> THEN 0
    ELSE IntOf(SubSeq(num, 1, Len(num) - 1)) * 10 + DigitVal(num[Len(num)])

IsNumeric(num) == num # <<>> /\ \A i \in 1..Len(num) : num[i] \in DigitSet

\* [x for x in list if x]
RECURSIVE NonEmpty(_)
NonEmpty(list) ==
    IF list = <<>> THEN <<>>
    ELSE (IF Head(list) = <<>> THEN <<>> ELSE <<Head(list)>>)
             \o NonEmpty(Tail(list))

TupleLessElementwise(a, b) ==
    /\ Len(a) = Len(b)
    /\ \A i \in 1..Len(a) : a[i] < b[i]

\* Python's order of tuples of integers
TupleLess(a, b) ==
    \/ \E i \in 1..Len(a) :
          /\ i <= Len(b)
          /\ a[i] < b[i]
          /\ \A j \in 1..(i - 1) : a[j] = b[j]
    \/ /\ Len(a) < Len(b)
       /\ \A j \in 1..Len(a) : a[j] = b[j]

OpLt == <<"<">>
OpLe == <<"<", "=">>
OpGt == <<">">>
OpGe == <<">", "=">>
OpEq == <<"=", "=">>
OpNe == <<"!", "=">>
ComparisonOps == {OpLt, OpLe, OpGt, OpGe, OpEq, OpNe}

\* A returned value or a raised exception.
Returned(v) == [raised |-> FALSE, value |-> v]
Raised      == [raised |-> TRUE, value |-> FALSE]

\* eval(f"{in_use}{operator}{required}"): between two tuple displays the
\* six comparison operators compare; no operator calls a tuple (TypeError)
\* and any other string over < > = ! ~ . is a SyntaxError or a TypeError.
EvalCompare(in_use, operator, required) ==
    IF operator = OpLt THEN Returned(TupleLess(in_use, required))
    ELSE IF operator = OpLe THEN Returned(~TupleLess(required, in_use))
    ELSE IF operator = OpGt THEN Returned(TupleLess(required, in_use))
    ELSE IF operator = OpGe THEN Returned(~TupleLess(in_use, required))
    ELSE IF operator = OpEq THEN Returned(in_use = required)
    ELSE IF operator = OpNe THEN Returned(in_use # required)
    ELSE Raised

\* tuple(int(num) for num in numbers[1:] if num)
RequiredTuple(numbers) ==
    LET nums == NonEmpty(Tail(numbers))
    IN  [i \in 1..Len(nums) |-> IntOf(nums[i])]

is_supported_python(python_version) ==
    LET numbers == ReSplit(python_version)
        operator == numbers[1]
        nums == NonEmpty(Tail(numbers))
    IN  IF \E i \in 1..Len(nums) : ~IsNumeric(nums[i])
        THEN Raised        \* int() raises ValueError
        ELSE EvalCompare(version_info, operator, RequiredTuple(numbers))

----------------------------------------------------------------------------
(* install_requirements: parsing of one requirement token.                 *)

FlagConda         == <<"-", "-", "c", "o", "n", "d", "a", "=">>
FlagMingw         == <<"-", "-", "m", "i", "n", "g", "w", "=">>
FlagNoDeps        == <<"-", "-", "n", "o", "-", "d", "e", "p", "s">>
FlagPlatform      == <<"-", "-", "p", "l", "a", "t", "f", "o", "r", "m", "=">>
FlagPythonVersion == <<"-", "-", "p", "y", "t", "h", "o", "n", "-",
                       "v", "e", "r", "s", "i", "o", "n">>
FlagOnlyBinary    == <<"-", "-", "o", "n", "l", "y", "-",
                       "b", "i", "n", "a", "r", "y">>
FlagPre           == <<"-", "-", "p", "r", "e">>
FlagPreferBinary  == <<"-", "-", "p", "r", "e", "f", "e", "r", "-",
                       "b", "i", "n", "a", "r", "y">>
FlagUpgrade       == <<"-", "-", "u", "p", "g", "r", "a", "d", "e">>

\* the class Requirement of the module: name is the string, str() the name
Requirement(requirement_string) == [name |-> requirement_string]
Str(require) == require.name

\* the locals a loop iteration starts from
NoDirective == [alias_for_conda |-> None, alias_for_mingw |-> None,
                no_deps |-> FALSE, platform |-> None,
                python_version |-> None, only_binary |-> FALSE,
                pre_release |-> FALSE, prefer_binary |-> FALSE,
                require |-> None, upgrade |-> FALSE]

ParseDataKeepingEmpty(d, req_data) ==
    IF StartsWith(req_data, FlagConda)
    THEN [d EXCEPT !.alias_for_conda = Some(Split1(req_data, "=")[2])]
    ELSE IF StartsWith(req_data, FlagMingw)
    THEN [d EXCEPT !.alias_for_mingw = Some(Split1(req_data, "=")[2])]
    ELSE IF req_data = FlagNoDeps
    THEN [d EXCEPT !.no_deps = TRUE]
    ELSE IF StartsWith(req_data, FlagPlatform)
    THEN [d EXCEPT !.platform = Some(Split(req_data, "=")[2])]
    ELSE IF StartsWith(req_data, FlagPythonVersion)
    THEN [d EXCEPT !.python_version =
                       Some(SliceFrom(req_data, Len(FlagPythonVersion)))]
    ELSE IF req_data = FlagOnlyBinary
    THEN [d EXCEPT !.only_binary = TRUE]
    ELSE IF req_data = FlagPre
    THEN [d EXCEPT !.pre_release = TRUE]
    ELSE IF req_data = FlagPreferBinary
    THEN [d EXCEPT !.prefer_binary = TRUE]
    ELSE IF req_data = FlagUpgrade
    THEN [d EXCEPT !.upgrade = TRUE]
    ELSE [d EXCEPT !.require = Some(Requirement(req_data))]

\* one turn of `for req_data in req.split(" ")`
ParseData(d, req_data) ==
    IF StartsWith(req_data, FlagConda)
    THEN [d EXCEPT !.alias_for_conda = Some(Split1(req_data, "=")[2])]
    ELSE IF StartsWith(req_data, FlagMingw)
    THEN [d EXCEPT !.alias_for_mingw = Some(Split1(req_data, "=")[2])]
    ELSE IF req_data = FlagNoDeps
    THEN [d EXCEPT !.no_deps = TRUE]
    ELSE IF StartsWith(req_data, FlagPlatform)
    THEN [d EXCEPT !.platform = Some(Split(req_data, "=")[2])]
    ELSE IF StartsWith(req_data, FlagPythonVersion)
    THEN [d EXCEPT !.python_version =
                       Some(SliceFrom(req_data, Len(FlagPythonVersion)))]
    ELSE IF req_data = FlagOnlyBinary
    THEN [d EXCEPT !.only_binary = TRUE]
    ELSE IF req_data = FlagPre
    THEN [d EXCEPT !.pre_release = TRUE]
    ELSE IF req_data = FlagPreferBinary
    THEN [d EXCEPT !.prefer_binary = TRUE]
    ELSE IF req_data = FlagUpgrade
    THEN [d EXCEPT !.upgrade = TRUE]
    ELSE IF req_data # <<>>
    THEN [d EXCEPT !.require = Some(Requirement(req_data))]
    ELSE d

RECURSIVE ParseAll(_, _)
ParseAll(d, parts) ==
    IF parts = <<>> THEN d
    ELSE ParseAll(ParseData(d, Head(parts)), Tail(parts))

ParseReqRightToLeft(token) ==
    LET parts == Split(token, " ")
    IN  ParseAll([NoDirective EXCEPT !.upgrade = PIP_UPGRADE],
                 [i \in 1..Len(parts) |-> parts[Len(parts) + 1 - i]])

\* the locals after the inner loop over req.split(" ")
ParseReq(token) ==
    ParseAll([NoDirective EXCEPT !.upgrade = PIP_UPGRADE], Split(token, " "))

----------------------------------------------------------------------------
(* install_requirements: the eligibility tests of a parsed directive.      *)

\* is_supported_platform(platform) as the loop calls it
PlatformSupported(d) ==
    is_supported_platform(
        IF d.platform = None THEN PyNone ELSE PyStr(d.platform[1]), None)

\* `python_version and ...`: the constraint is there and is not ""
HasPythonVersion(d) ==
    d.python_version # None /\ d.python_version[1] # <<>>

\* the eligibility tests raise when is_supported_python does
FilterRaises(d) ==
    /\ PlatformSupported(d)
    /\ HasPythonVersion(d)
    /\ is_supported_python(d.python_version[1]).raised

FiltersOutVersionOnly(d) ==
    /\ HasPythonVersion(d)
    /\ ~is_supported_python(d.python_version[1]).raised
    /\ ~is_supported_python(d.python_version[1]).value

\* the two `continue` of the eligibility tests
FiltersOut(d) ==
    \/ ~PlatformSupported(d)
    \/ /\ HasPythonVersion(d)
       /\ ~is_supported_python(d.python_version[1]).raised
       /\ ~is_supported_python(d.python_version[1]).value

----------------------------------------------------------------------------
(* install_requirements: the names pacman is asked for.                    *)

LowerLetters == <<"a", "b", "c", "d", "e", "f", "g", "h", "i", "j", "k",
                  "l", "m", "n", "o", "p", "q", "r", "s", "t", "u", "v",
                  "w", "x", "y", "z">>
UpperLetters == <<"A", "B", "C", "D", "E", "F", "G", "H", "I", "J", "K",
                  "L", "M", "N", "O", "P", "Q", "R", "S", "T", "U", "V",
                  "W", "X", "Y", "Z">>

\* str.lower() on one character
LowerChar(c) ==
    IF c \in Elems(UpperLetters)
    THEN LowerLetters[CHOOSE n \in 1..26 : UpperLetters[n] = c]
    ELSE c

Lower(s) == [i \in 1..Len(s) |-> LowerChar(s[i])]

\* str.islower(): a cased character exists and none is uppercase
IsLower(s) ==
    /\ \E i \in 1..Len(s) : s[i] \in Elems(LowerLetters)
    /\ \A i \in 1..Len(s) : s[i] \notin Elems(UpperLetters)

\* str.replace(old, new) for one-character old and new
Replace(s, old, new) == [i \in 1..Len(s) |-> IF s[i] = old THEN new ELSE s[i]]

PythonDash == <<"p", "y", "t", "h", "o", "n", "-">>

\* the list `packages` built for one package name
CandidateNames(package) ==
    LET p0 == <<PythonDash \o package, package>>
        p1 == IF ~IsLower(package)
              THEN p0 \o [i \in 1..Len(p0) |-> Lower(p0[i])]
              ELSE p0
        p2 == IF Contains(package, "_")
              THEN p1 \o [i \in 1..Len(p1) |-> Replace(p1[i], "_", "-")]
              ELSE IF Contains(package, "-")
              THEN p1 \o [i \in 1..Len(p1) |-> Replace(p1[i], "-", "_")]
              ELSE p1
    IN  p2

\* os.environ.get("MINGW_PACKAGE_PREFIX", "") as MSYS2 sets it
MINGW_PACKAGE_PREFIX == <<"m", "w">>

\* f"{MINGW_PACKAGE_PREFIX}-{package_name}"
MingwPackage(package_name) == MINGW_PACKAGE_PREFIX \o <<"-">> \o package_name

----------------------------------------------------------------------------
(* install_requirements: the pip / pipenv command of one directive.        *)

OnlyBinaryEq == <<"-", "-", "o", "n", "l", "y", "-",
                  "b", "i", "n", "a", "r", "y", "=">>
ExtraIndexUrlEq == <<"-", "-", "e", "x", "t", "r", "a", "-", "i", "n", "d",
                     "e", "x", "-", "u", "r", "l", "=">>
IndexEq == <<"-", "-", "i", "n", "d", "e", "x", "=">>

When(cond, list) == IF cond THEN list ELSE <<>>

PipFlagsIgnoringPipenv(d) ==
    When(d.no_deps, <<FlagNoDeps>>)
      \o When(d.only_binary, <<OnlyBinaryEq \o d.require[1].name>>)
      \o When(d.pre_release, <<FlagPre>>)
      \o When(d.prefer_binary, <<FlagPreferBinary>>)
      \o When(d.upgrade, <<FlagUpgrade>>)

\* the list `args` of the flags of the directive
PipFlags(d) ==
    When(d.no_deps /\ ~PIPENV_ACTIVE, <<FlagNoDeps>>)
      \o When(d.only_binary /\ ~PIPENV_ACTIVE,
              <<OnlyBinaryEq \o d.require[1].name>>)
      \o When(d.pre_release, <<FlagPre>>)
      \o When(d.prefer_binary /\ ~PIPENV_ACTIVE, <<FlagPreferBinary>>)
      \o When(d.upgrade, <<FlagUpgrade>>)

\* the command line of one directive; find_links is not given
PipCommand(d, extra) ==
    IF PIPENV_ACTIVE
    THEN [prog |-> "pipenv",
          argv |-> PipFlags(d) \o When(extra # <<>>, <<IndexEq \o extra[1]>>)
                       \o <<Str(d.require[1])>>]
    ELSE [prog |-> "pip",
          argv |-> PipFlags(d)
                       \o [i \in 1..Len(extra) |-> ExtraIndexUrlEq \o extra[i]]
                       \o <<Str(d.require[1])>>]

\* the command line that installs pip_pkgs
PipBatchCommand(pkgs, extra) ==
    IF PIPENV_ACTIVE
    THEN [prog |-> "pipenv", argv |-> pkgs]
    ELSE [prog |-> "pip",
          argv |-> [i \in 1..Len(extra) |-> ExtraIndexUrlEq \o extra[i]]
                       \o pkgs]

\* `elif not IS_FINAL_VERSION and not pre_release` after a failed command
RetriesWithPre(returncode, pre_release) ==
    returncode # 0 /\ ~IS_FINAL_VERSION /\ ~pre_release

----------------------------------------------------------------------------
(* install_requirements: the commands of the conda branch.                 *)

SlashConda == <<"/", "c", "o", "n", "d", "a">>
DashC      == <<"-", "c">>
DashJson   == <<"-", "-", "j", "s", "o", "n">>
OverrideChannels == <<"-", "-", "o", "v", "e", "r", "r", "i", "d", "e", "-",
                      "c", "h", "a", "n", "n", "e", "l", "s">>
CondaForge == <<"c", "o", "n", "d", "a", "-", "f", "o", "r", "g", "e">>

\* extra[:-1] if extra[-1] == "/" else extra
PackagesUrl(extra) ==
    IF extra[Len(extra)] = "/" THEN SubSeq(extra, 1, Len(extra) - 1)
    ELSE extra

\* conda_search + args2
CondaSearchCommand(extra, require) ==
    [prog |-> "conda_search",
     argv |-> <<DashC, PackagesUrl(extra) \o SlashConda, require.name,
                DashJson>>]

\* file["url"] of the build that matches the interpreter
FileUrl(extra, require) ==
    PackagesUrl(extra) \o SlashConda \o <<"/">> \o require.name

\* conda_install + conda_forge + conda_pkgs
CondaBatchCommand(pkgs) ==
    [prog |-> "conda_install",
     argv |-> <<OverrideChannels, DashC, CondaForge>> \o pkgs]

----------------------------------------------------------------------------
(* install_requirements: where an iteration goes before it runs a command. *)

NoCommand == [prog |-> "none", argv |-> <<>>]

SubprocessRaisesOnFailure(returncode) == returncode # 0

\* subprocess.run(..., check=False) raises on no exit status
SubprocessRaises(returncode) == FALSE

\* `continue`: nothing changes but the iteration ends
Continue(d) ==
    [pc |-> "loop", args |-> NoCommand, packages |-> <<>>, idx |-> 0,
     dir |-> d, pip_pkgs |-> pip_pkgs, conda_pkgs |-> conda_pkgs,
     batch_reqs |-> batch_reqs]

\* "use pip": the flags of the directive, then its own command or pip_pkgs
PipRoute(d, token) ==
    IF d.require = None THEN Continue(d)
    ELSE IF PipFlags(d) # <<>>
    THEN [Continue(d) EXCEPT !.pc = "pip",
                             !.args = PipCommand(d, extra_index_url)]
    ELSE [Continue(d) EXCEPT !.pip_pkgs = Append(@, Str(d.require[1])),
                             !.batch_reqs = Append(@, token)]

AfterCandidatesDropped(d, token) == Continue(d)

\* `if installed: continue`, else on to pip, after the candidates
AfterCandidates(d, token) == PipRoute(d, token)

WithAliasUnlessEmpty(d, alias) ==
    IF alias # None /\ alias[1] # <<>>
    THEN [d EXCEPT !.require = Some(Requirement(alias[1]))]
    ELSE d

\* the alias of the backend replaces the requirement; "" and no name skip
WithAlias(d, alias) ==
    IF alias # None
    THEN (IF alias[1] = <<>> THEN [d EXCEPT !.require = None]
          ELSE [d EXCEPT !.require = Some(Requirement(alias[1]))])
    ELSE d

\* `if IS_MINGW:` up to the first pacman search
MingwRoute(d, token) ==
    LET da == WithAlias(d, d.alias_for_mingw)
    IN  IF da.require = None THEN Continue(d)
        ELSE [Continue(da) EXCEPT
                 !.pc = "pacman_search",
                 !.packages = CandidateNames(da.require[1].name),
                 !.idx = 1]

\* `if IS_CONDA:` up to the first conda search, or to conda_pkgs
CondaRoute(d, token) ==
    LET da == WithAlias(d, d.alias_for_conda)
    IN  IF da.require = None THEN Continue(d)
        ELSE IF extra_index_url # <<>>
        THEN [Continue(da) EXCEPT !.pc = "conda_search", !.idx = 1,
                                  !.args = [prog |-> "conda_install",
                                            argv |-> <<>>]]
        ELSE [Continue(da) EXCEPT
                 !.conda_pkgs = Append(@, Str(da.require[1])),
                 !.batch_reqs = Append(@, token)]

BackendMingwFirst ==
    IF IS_MINGW THEN "mingw" ELSE IF IS_CONDA THEN "conda" ELSE "pip"

\* the order of the tests `if IS_CONDA:` and `if IS_MINGW:`
Backend ==
    IF IS_CONDA THEN "conda" ELSE IF IS_MINGW THEN "mingw" ELSE "pip"

\* one iteration from the parsed directive to its first command
Route(d, token) ==
    IF FilterRaises(d) THEN [Continue(d) EXCEPT !.pc = "raised"]
    ELSE IF FiltersOut(d) THEN Continue(d)
    ELSE IF Backend = "conda" THEN CondaRoute(d, token)
    ELSE IF Backend = "mingw" THEN MingwRoute(d, token)
    ELSE PipRoute(d, token)

\* the assignments of a route
Take(r) ==
    /\ pc' = r.pc
    /\ args' = r.args
    /\ packages' = r.packages
    /\ idx' = r.idx
    /\ dir' = r.dir
    /\ pip_pkgs' = r.pip_pkgs
    /\ conda_pkgs' = r.conda_pkgs
    /\ batch_reqs' = r.batch_reqs

\* a finished subprocess.run, as the history keeps it
Ran(command, token, returncode, out) ==
    [prog |-> command.prog, argv |-> command.argv, req |-> token,
     rc |-> returncode, out |-> out]

----------------------------------------------------------------------------
(* The state outside a call of install_requirements.                       *)

RunIdle ==
    /\ requires = {}
    /\ extra_index_url = <<>>
    /\ installed_packages = <<>>
    /\ conda_pkgs = <<>>
    /\ pip_pkgs = <<>>
    /\ pc = "idle"
    /\ req = None
    /\ dir = NoDirective
    /\ packages = <<>>
    /\ idx = 0
    /\ args = NoCommand
    /\ installed = FALSE
    /\ log = <<>>
    /\ batch_reqs = <<>>

InterpreterVersions ==
    {<<2, 7, 18>>, <<3, 9, 0>>, <<3, 10, 0>>, <<3, 10, 1>>, <<3, 11, 2>>}

----------------------------------------------------------------------------
(* Calls of is_supported_platform on enumerated constraints.               *)

PlatformTags == {TagLinux, TagMacos, TagMingw, TagWindows}

\* what a constraint is written from: plain tags and '!'-prefixed tags
ConstraintEntries == PlatformTags \cup {<<"!">> \o t : t \in PlatformTags}

ConstraintLists ==
    UNION {[1..n -> ConstraintEntries] : n \in 0..MaxTags}

PlatformArgs ==
    {PyNone} \cup {PyList(l) : l \in ConstraintLists}
             \cup {PyStr(Join(l, ",")) : l \in ConstraintLists}

InitPlatform ==
    /\ PLATFORM \in PlatformFamilies
    /\ IS_CONDA = FALSE
    /\ IS_FINAL_VERSION = TRUE
    /\ PIP_UPGRADE = FALSE
    /\ PIPENV_ACTIVE = FALSE
    /\ version_info = <<3, 9, 0>>
    /\ call \in {[fn |-> "is_supported_platform", platform |-> c,
                  platform_in_use |-> u] :
                     c \in PlatformArgs,
                     u \in {None} \cup {Some(t) : t \in PlatformTags}}
    /\ ret = Pending
    /\ RunIdle

CallPlatform ==
    /\ call.fn = "is_supported_platform"
    /\ ret = Pending
    /\ ret' = Some(is_supported_platform(call.platform, call.platform_in_use))
    /\ UNCHANGED <<envVars, call, runVars>>

NextPlatform == CallPlatform

SpecPlatform == InitPlatform /\ [][NextPlatform]_vars

----------------------------------------------------------------------------
(* Calls of is_supported_python on enumerated constraints.                 *)

\* the decimal digits of n, 0 <= n <= 99
DecStr(n) ==
    IF n < 10 THEN <<Digits[n + 1]>>
    ELSE <<Digits[(n \div 10) + 1], Digits[(n % 10) + 1]>>

WrittenOps == ComparisonOps \cup {<<>>, <<"=">>, <<"~", "=">>}

WrittenComponents ==
    {<<>>}
      \cup {<<a>> : a \in {2, 3}}
      \cup {<<a, b>> : a \in {2, 3}, b \in {0, 9, 10, 11}}
      \cup {<<a, b, c>> : a \in {2, 3}, b \in {0, 9, 10, 11}, c \in 0..MaxPatch}

\* the constraint as it is written after "--python-version"
ConstraintText(op, comps) ==
    op \o Join([i \in 1..Len(comps) |-> DecStr(comps[i])], ".")

InitPython ==
    /\ PLATFORM = "linux"
    /\ IS_CONDA = FALSE
    /\ IS_FINAL_VERSION = TRUE
    /\ PIP_UPGRADE = FALSE
    /\ PIPENV_ACTIVE = FALSE
    /\ version_info \in InterpreterVersions
    /\ call \in {[fn |-> "is_supported_python", op |-> o, comps |-> c,
                  python_version |-> ConstraintText(o, c)] :
                     o \in WrittenOps, c \in WrittenComponents}
    /\ ret = Pending
    /\ RunIdle

CallPython ==
    /\ call.fn = "is_supported_python"
    /\ ret = Pending
    /\ ret' = Some(is_supported_python(call.python_version))
    /\ UNCHANGED <<envVars, call, runVars>>

NextPython == CallPython

SpecPython == InitPython /\ [][NextPython]_vars

----------------------------------------------------------------------------
(* install_requirements as a state machine: one action for the code that   *)
(* runs from one subprocess.run to the next.                               *)

NameA    == <<"a">>
NameB    == <<"b">>
NameBar  == <<"b", "a", "r">>
NameC    == <<"c">>
NameD    == <<"d">>
NameE    == <<"e">>
NameFoo  == <<"f", "o", "o">>
NameLief == <<"l", "i", "e", "f">>
NamePyLief == <<"p", "y", "-", "l", "i", "e", "f">>

TokA        == NameA
TokBNoDeps  == Join(<<NameB, FlagNoDeps>>, " ")
TokCPre     == Join(<<NameC, FlagPre>>, " ")
TokFooLinux == Join(<<NameFoo, FlagPlatform \o TagLinux>>, " ")
TokBar310   == Join(<<NameBar, FlagPythonVersion \o OpGe \o <<"3", ".", "1", "0">>>>, " ")
TokLief     == Join(<<NameLief, FlagConda \o NamePyLief, FlagOnlyBinary>>, " ")

TokDPrefer  == Join(<<NameD, FlagPreferBinary>>, " ")
TokEUpgrade == Join(<<NameE, FlagUpgrade>>, " ")

TokenPool == {TokA, TokBNoDeps, TokCPre, TokDPrefer, TokEUpgrade,
              TokFooLinux, TokBar310, TokLief}

\* the urls of extra_index_url: "u1/", "u2/", ...
Urls(n) == [i \in 1..n |-> <<"u", Digits[i + 1], "/">>]

\* the environments of a call: pip or pipenv (on macos, which differs from
\* linux in the platform test only, with the default settings), pacman on
\* MSYS2, and conda (also on MSYS2, where it is tested first)
Environments ==
    [PLATFORM : {"linux"}, IS_CONDA : {FALSE},
     IS_FINAL_VERSION : BOOLEAN, PIP_UPGRADE : BOOLEAN,
     PIPENV_ACTIVE : BOOLEAN]
      \cup [PLATFORM : {"macos"}, IS_CONDA : {FALSE},
            IS_FINAL_VERSION : {TRUE}, PIP_UPGRADE : {FALSE},
            PIPENV_ACTIVE : {FALSE}]
      \cup [PLATFORM : {"mingw"}, IS_CONDA : {FALSE},
            IS_FINAL_VERSION : BOOLEAN, PIP_UPGRADE : {FALSE},
            PIPENV_ACTIVE : {FALSE}]
      \cup [PLATFORM : {"win", "mingw"}, IS_CONDA : {TRUE},
            IS_FINAL_VERSION : {TRUE}, PIP_UPGRADE : {FALSE},
            PIPENV_ACTIVE : {FALSE}]

\* conda and pacman run several commands for one directive: their calls
\* are enumerated with fewer tokens
ReqLimit(e) ==
    IF e.IS_CONDA \/ e.PLATFORM = "mingw" THEN MaxManagedReqs ELSE MaxReqs

TokenSets(n) ==
    {s \in SUBSET TokenPool : Cardinality(s) >= 1 /\ Cardinality(s) <= n}

\* the state in which the loop of install_requirements is entered
Entered(e, tokens) ==
    /\ PLATFORM = e.PLATFORM
    /\ IS_CONDA = e.IS_CONDA
    /\ IS_FINAL_VERSION = e.IS_FINAL_VERSION
    /\ PIP_UPGRADE = e.PIP_UPGRADE
    /\ PIPENV_ACTIVE = e.PIPENV_ACTIVE
    /\ requires = tokens
    /\ call = [fn |-> "install_requirements", requires |-> tokens]
    /\ ret = Pending
    /\ installed_packages = <<>>
    /\ conda_pkgs = <<>>
    /\ pip_pkgs = <<>>
    /\ pc = "loop"
    /\ req = None
    /\ dir = NoDirective
    /\ packages = <<>>
    /\ idx = 0
    /\ args = NoCommand
    /\ installed = FALSE
    /\ log = <<>>
    /\ batch_reqs = <<>>

Init ==
    /\ \E e \in Environments :
          \E tokens \in TokenSets(ReqLimit(e)) : Entered(e, tokens)
    /\ version_info \in {<<3, 9, 0>>, <<3, 11, 2>>}
    /\ extra_index_url \in {<<>>, Urls(MaxExtra)}

\* `for req in requires:` takes a token, parses it and goes to its command
Iterate ==
    /\ pc = "loop"
    /\ \E token \in requires :
          /\ requires' = requires \ {token}
          /\ req' = Some(token)
          /\ installed' = FALSE
          /\ Take(Route(ParseReq(token), token))
    /\ UNCHANGED <<envVars, callVars, extra_index_url, installed_packages,
                   log>>

BatchStageRunsEmptyBatch ==
    [Continue(dir) EXCEPT
        !.pc = "pip_batch",
        !.args = PipBatchCommand(pip_pkgs, extra_index_url)]

\* the stage after the loop: the pip batch, the conda batch, the return
BatchStage ==
    IF pip_pkgs # <<>>
    THEN [Continue(dir) EXCEPT
             !.pc = "pip_batch",
             !.args = PipBatchCommand(pip_pkgs, extra_index_url)]
    ELSE IF conda_pkgs # <<>>
    THEN [Continue(dir) EXCEPT !.pc = "conda_batch",
                               !.args = CondaBatchCommand(conda_pkgs)]
    ELSE [Continue(dir) EXCEPT !.pc = "done"]

\* the loop is over and no batch is left to run first
EndLoop ==
    /\ pc = "loop"
    /\ requires = {}
    /\ Take(BatchStage)
    /\ ret' = IF BatchStage.pc = "done" THEN Some(installed_packages) ELSE ret
    /\ UNCHANGED <<envVars, call, requires, extra_index_url,
                   installed_packages, req, installed, log>>

\* a command raises instead of returning its exit status
Raise(command, token, returncode) ==
    /\ pc' = "raised"
    /\ log' = Append(log, Ran(command, token, returncode, FALSE))
    /\ UNCHANGED <<envVars, callVars, requires, extra_index_url,
                   installed_packages, conda_pkgs, pip_pkgs, req, dir,
                   packages, idx, args, installed, batch_reqs>>

\* conda search of one extra url; a match with the interpreter gives args
CondaSearch ==
    /\ pc = "conda_search"
    /\ \E returncode \in {0, 1}, match \in BOOLEAN :
          LET extra == extra_index_url[idx]
              command == CondaSearchCommand(extra, dir.require[1])
              found == IF returncode = 0 /\ match
                       THEN [args EXCEPT
                                !.argv = <<FileUrl(extra, dir.require[1])>>]
                       ELSE args
              last == idx = Len(extra_index_url)
          IN  /\ returncode = 0 \/ ~match
              /\ IF SubprocessRaises(returncode)
                 THEN Raise(command, req, returncode)
                 ELSE /\ log' = Append(log, Ran(command, req, returncode, match))
                      /\ IF ~last
                         THEN Take([Continue(dir) EXCEPT
                                       !.pc = "conda_search",
                                       !.idx = idx + 1, !.args = found])
                         ELSE IF found.argv # <<>>
                         THEN Take([Continue(dir) EXCEPT
                                       !.pc = "conda_install",
                                       !.args = found])
                         ELSE Take([Continue(dir) EXCEPT
                                       !.conda_pkgs =
                                           Append(@, Str(dir.require[1])),
                                       !.batch_reqs = Append(@, req[1])])
                      /\ UNCHANGED <<envVars, callVars, requires,
                                     extra_index_url, installed_packages,
                                     req, installed>>

\* conda install of the file found by the search
CondaInstall ==
    /\ pc = "conda_install"
    /\ \E returncode \in {0, 1} :
          IF SubprocessRaises(returncode)
          THEN Raise(args, req, returncode)
          ELSE /\ log' = Append(log, Ran(args, req, returncode, FALSE))
               /\ installed_packages' =
                      IF returncode = 0 THEN installed_packages \o args.argv
                      ELSE installed_packages
               /\ installed' = (returncode = 0)
               /\ Take(Continue(dir))
               /\ UNCHANGED <<envVars, callVars, requires, extra_index_url,
                              req>>

SearchVerdictIgnoringOutput(returncode, says_installed) ==
    IF returncode = 1 THEN "next" ELSE "install"

\* what the loop over the candidates does with the result of a search
SearchVerdict(returncode, says_installed) ==
    IF returncode = 1 THEN "next"
    ELSE IF returncode = 0 /\ says_installed THEN "installed"
    ELSE "install"

\* the candidates are exhausted or the next one is searched
NextCandidate ==
    IF idx < Len(packages)
    THEN [Continue(dir) EXCEPT !.pc = "pacman_search",
                               !.packages = packages, !.idx = idx + 1]
    ELSE AfterCandidates(dir, req[1])

\* pacman -Ss of the candidate in turn
PacmanSearch ==
    /\ pc = "pacman_search"
    /\ \E returncode \in {0, 1, 2}, says_installed \in BOOLEAN :
          LET package == MingwPackage(packages[idx])
              command == [prog |-> "pacman_search", argv |-> <<package>>]
              verdict == SearchVerdict(returncode, says_installed)
          IN  /\ returncode = 0 \/ ~says_installed
              /\ IF SubprocessRaises(returncode)
                 THEN Raise(command, req, returncode)
                 ELSE /\ log' = Append(log, Ran(command, req, returncode,
                                               says_installed))
                      /\ installed_packages' =
                             IF verdict = "installed"
                             THEN Append(installed_packages, package)
                             ELSE installed_packages
                      /\ installed' = (verdict = "installed")
                      /\ IF verdict = "next" THEN Take(NextCandidate)
                         ELSE IF verdict = "installed" THEN Take(Continue(dir))
                         ELSE Take([Continue(dir) EXCEPT
                                       !.pc = "pacman_install",
                                       !.packages = packages, !.idx = idx,
                                       !.args = [prog |-> "pacman_install",
                                                 argv |-> <<package>>]])
                      /\ UNCHANGED <<envVars, callVars, requires,
                                     extra_index_url, req>>

PacmanInstallFailureEnds ==
    /\ pc = "pacman_install"
    /\ \E returncode \in {0, 1} :
          /\ log' = Append(log, Ran(args, req, returncode, FALSE))
          /\ installed_packages' =
                 IF returncode = 0 THEN installed_packages \o args.argv
                 ELSE installed_packages
          /\ installed' = (returncode = 0)
          /\ Take(Continue(dir))
          /\ UNCHANGED <<envVars, callVars, requires, extra_index_url, req>>

\* pacman -S of the candidate whose search did not end the turn
PacmanInstall ==
    /\ pc = "pacman_install"
    /\ \E returncode \in {0, 1} :
          IF SubprocessRaises(returncode)
          THEN Raise(args, req, returncode)
          ELSE /\ log' = Append(log, Ran(args, req, returncode, FALSE))
               /\ installed_packages' =
                      IF returncode = 0 THEN installed_packages \o args.argv
                      ELSE installed_packages
               /\ installed' = (returncode = 0)
               /\ IF returncode = 0 THEN Take(Continue(dir))
                  ELSE Take(NextCandidate)
               /\ UNCHANGED <<envVars, callVars, requires, extra_index_url,
                              req>>

\* the pip / pipenv command of one directive
PipInstall ==
    /\ pc = "pip"
    /\ \E returncode \in {0, 1} :
          IF SubprocessRaises(returncode)
          THEN Raise(args, req, returncode)
          ELSE /\ log' = Append(log, Ran(args, req, returncode, FALSE))
               /\ installed_packages' =
                      IF returncode = 0
                      THEN Append(installed_packages, dir.require[1].name)
                      ELSE installed_packages
               /\ installed' = (returncode = 0)
               /\ IF RetriesWithPre(returncode, dir.pre_release)
                  THEN Take([Continue(dir) EXCEPT
                                !.pc = "pip_retry",
                                !.args = [args EXCEPT
                                             !.argv = Append(@, FlagPre)]])
                  ELSE Take(Continue(dir))
               /\ UNCHANGED <<envVars, callVars, requires, extra_index_url,
                              req>>

\* the same command once more with --pre appended
PipRetry ==
    /\ pc = "pip_retry"
    /\ \E returncode \in {0, 1} :
          IF SubprocessRaises(returncode)
          THEN Raise(args, req, returncode)
          ELSE /\ log' = Append(log, Ran(args, req, returncode, FALSE))
               /\ installed_packages' =
                      IF returncode = 0
                      THEN Append(installed_packages, dir.require[1].name)
                      ELSE installed_packages
               /\ installed' = (returncode = 0)
               /\ Take(Continue(dir))
               /\ UNCHANGED <<envVars, callVars, requires, extra_index_url,
                              req>>

\* after the pip batch: the conda batch or the return
AfterPipBatch ==
    IF conda_pkgs # <<>>
    THEN [Continue(dir) EXCEPT !.pc = "conda_batch",
                               !.args = CondaBatchCommand(conda_pkgs)]
    ELSE [Continue(dir) EXCEPT !.pc = "done"]

PipBatchRecordsAlways ==
    /\ pc = "pip_batch"
    /\ \E returncode \in {0, 1} :
          /\ log' = Append(log, Ran(args, None, returncode, FALSE))
          /\ installed_packages' = installed_packages \o pip_pkgs
          /\ Take(AfterPipBatch)
          /\ ret' = IF AfterPipBatch.pc = "done"
                    THEN Some(installed_packages')
                    ELSE ret
          /\ UNCHANGED <<envVars, call, requires, extra_index_url, req,
                         installed>>

\* one pip / pipenv command for all of pip_pkgs
PipBatch ==
    /\ pc = "pip_batch"
    /\ \E returncode \in {0, 1} :
          IF SubprocessRaises(returncode)
          THEN Raise(args, None, returncode)
          ELSE /\ log' = Append(log, Ran(args, None, returncode, FALSE))
               /\ installed_packages' =
                      IF returncode = 0 THEN installed_packages \o pip_pkgs
                      ELSE installed_packages
               /\ Take(AfterPipBatch)
               /\ ret' = IF AfterPipBatch.pc = "done"
                         THEN Some(installed_packages')
                         ELSE ret
               /\ UNCHANGED <<envVars, call, requires, extra_index_url, req,
                              installed>>

\* one conda command for all of conda_pkgs, then the return
CondaBatch ==
    /\ pc = "conda_batch"
    /\ \E returncode \in {0, 1} :
          IF SubprocessRaises(returncode)
          THEN Raise(args, None, returncode)
          ELSE /\ log' = Append(log, Ran(args, None, returncode, FALSE))
               /\ installed_packages' =
                      IF returncode = 0 THEN installed_packages \o conda_pkgs
                      ELSE installed_packages
               /\ Take([Continue(dir) EXCEPT !.pc = "done"])
               /\ ret' = Some(installed_packages')
               /\ UNCHANGED <<envVars, call, requires, extra_index_url, req,
                              installed>>

Next ==
    \/ Iterate
    \/ EndLoop
    \/ CondaSearch
    \/ CondaInstall
    \/ PacmanSearch
    \/ PacmanInstall
    \/ PipInstall
    \/ PipRetry
    \/ PipBatch
    \/ CondaBatch

Spec == Init /\ [][Next]_vars

----------------------------------------------------------------------------
(* C1: for every platform constraint and every platform tag,               *)
(* is_supported_platform returns TRUE when the constraint is empty, "tag   *)
(* not in denied" when only '!'-prefixed tags are given, "tag in allowed"  *)
(* when only plain tags are given, and "tag in allowed minus denied" when  *)
(* both are given.                                                         *)

\* the tags a constraint gives: none for None, "" and []
GivenTags(platform) ==
    IF platform.kind = "str" /\ platform.val # <<>>
    THEN Elems(Split(platform.val, ","))
    ELSE Elems(platform.val)

TagInUse == IF call.platform_in_use = None THEN DefaultPlatformInUse
            ELSE call.platform_in_use[1]

PlatformExpected ==
    LET given == GivenTags(call.platform)
        denied == {SliceFrom(t, 1) : t \in {g \in given : g[1] = "!"}}
        allowed == {g \in given : g[1] # "!"}
    IN  IF given = {} THEN TRUE
        ELSE IF allowed = {} THEN TagInUse \notin denied
        ELSE IF denied = {} THEN TagInUse \in allowed
        ELSE TagInUse \in (allowed \ denied)

C1_PlatformContract ==
    (call.fn = "is_supported_platform" /\ ret # Pending)
        => ret[1] = PlatformExpected

\* C1 away from the empty string: every other constraint obeys the contract
C1_PlatformContractButEmptyString ==
    (/\ call.fn = "is_supported_platform"
     /\ ret # Pending
     /\ call.platform # PyStr(<<>>))
        => ret[1] = PlatformExpected

----------------------------------------------------------------------------
(* C2: for every constraint <op><major>.<minor>.<patch> with a comparison  *)
(* operator and every interpreter version, is_supported_python returns     *)
(* the operator applied to the interpreter version and the required        *)
(* version as 3-tuples in lexicographic order.                             *)

Lex3Less(a, b) ==
    \/ a[1] < b[1]
    \/ a[1] = b[1] /\ a[2] < b[2]
    \/ a[1] = b[1] /\ a[2] = b[2] /\ a[3] < b[3]

Lex3Apply(op, a, b) ==
    CASE op = OpLt -> Lex3Less(a, b)
      [] op = OpLe -> Lex3Less(a, b) \/ a = b
      [] op = OpGt -> Lex3Less(b, a)
      [] op = OpGe -> Lex3Less(b, a) \/ a = b
      [] op = OpEq -> a = b
      [] op = OpNe -> a # b

C2_PythonContract ==
    (/\ call.fn = "is_supported_python"
     /\ ret # Pending
     /\ call.op \in ComparisonOps
     /\ Len(call.comps) = 3)
        => ret[1] = Returned(Lex3Apply(call.op, version_info, call.comps))

\* ">=3.10.0" has been evaluated under the interpreter 3.9.0 and is false
C2_Witness ==
    /\ call.fn = "is_supported_python"
    /\ call.python_version = <<">", "=", "3", ".", "1", "0", ".", "0">>
    /\ version_info = <<3, 9, 0>>
    /\ ret = Some(Returned(FALSE))

----------------------------------------------------------------------------
(* What the history says about a directive.                                *)

IsPip(e) == e.prog \in {"pip", "pipenv"}

Count(list, x) == Cardinality({i \in 1..Len(list) : list[i] = x})

\* the tokens a command was run for: its own directive, or the batch
Served(e) == IF e.req # None THEN {e.req[1]} ELSE Elems(batch_reqs)

\* the directive of a token with the alias of the backend in use applied
Directive(token) ==
    LET d == ParseReq(token)
    IN  IF IS_CONDA THEN WithAlias(d, d.alias_for_conda)
        ELSE IF IS_MINGW THEN WithAlias(d, d.alias_for_mingw)
        ELSE d

\* a pip command that ends with the appended --pre
IsRetry(e) == IsPip(e) /\ e.argv[Len(e.argv)] = FlagPre

----------------------------------------------------------------------------
(* C3: under a preview interpreter, whenever the pip command for a         *)
(* directive that did not request --pre exits non-zero, a flag-less        *)
(* directive included, exactly one retry with --pre appended is run, and   *)
(* if the retry exits 0 the package is exactly once in the report.         *)

C3_RetryAfterEveryFailure ==
    (pc = "done" /\ ~IS_FINAL_VERSION) =>
        \A i \in 1..Len(log) :
            (IsPip(log[i]) /\ log[i].rc # 0 /\ ~IsRetry(log[i])) =>
                \A token \in Served(log[i]) :
                    ~ParseReq(token).pre_release =>
                        LET name == Directive(token).require[1].name
                            retries == {j \in (i + 1)..Len(log) :
                                           /\ IsRetry(log[j])
                                           /\ token \in Served(log[j])}
                        IN  /\ Cardinality(retries) = 1
                            /\ \A j \in retries :
                                  log[j].rc = 0 =>
                                      Count(installed_packages, name) = 1

\* C3 for the commands of one directive: the failure of such a command is
\* followed by exactly one retry
C3_RetryAfterOwnCommand ==
    (pc = "done" /\ ~IS_FINAL_VERSION) =>
        \A i \in 1..Len(log) :
            (/\ IsPip(log[i])
             /\ log[i].rc # 0
             /\ ~IsRetry(log[i])
             /\ log[i].req # None
             /\ ~ParseReq(log[i].req[1]).pre_release) =>
                LET token == log[i].req[1]
                    name == Directive(token).require[1].name
                    retries == {j \in (i + 1)..Len(log) :
                                   IsRetry(log[j]) /\ log[j].req = Some(token)}
                IN  /\ retries = {i + 1}
                    /\ log[i + 1].argv = Append(log[i].argv, FlagPre)
                    /\ log[i + 1].rc = 0 =>
                           Count(installed_packages, name) = 1

----------------------------------------------------------------------------
(* C4: on the standard installer, the eligible directives that carry none  *)
(* of the flags no-deps, only-binary, pre, prefer-binary, upgrade are      *)
(* installed by one single command that lists all of them, and every       *)
(* directive that carries one of those flags is installed by its own       *)
(* separate command that names only that requirement.                      *)

\* the token is written with the flag
Carries(token, flag) == flag \in Elems(Split(token, " "))

CarriesAFlag(token) ==
    \E flag \in {FlagNoDeps, FlagOnlyBinary, FlagPre, FlagPreferBinary,
                 FlagUpgrade} : Carries(token, flag)

\* the arguments of a command that are not options
NamesOf(argv) == SelectSeq(argv, LAMBDA a : ~StartsWith(a, <<"-", "-">>))

\* the directive got as far as the standard installer
ReachedPip(token) ==
    \/ token \in Elems(batch_reqs)
    \/ \E i \in 1..Len(log) : IsPip(log[i]) /\ log[i].req = Some(token)

BatchRuns == {i \in 1..Len(log) : IsPip(log[i]) /\ log[i].req = None}

\* one single command lists the directive with all the other batched ones
InTheBatch(token) ==
    /\ token \in Elems(batch_reqs)
    /\ \A i \in 1..Len(log) : IsPip(log[i]) => log[i].req # Some(token)
    /\ Cardinality(BatchRuns) = 1
    /\ \A i \in BatchRuns :
          \A other \in Elems(batch_reqs) :
              Directive(other).require[1].name
                  \in Elems(NamesOf(log[i].argv))

\* the directive has its own command, which names it alone
OnItsOwn(token) ==
    /\ token \notin Elems(batch_reqs)
    /\ \E i \in 1..Len(log) : IsPip(log[i]) /\ log[i].req = Some(token)
    /\ \A i \in 1..Len(log) :
          (IsPip(log[i]) /\ log[i].req = Some(token)) =>
              NamesOf(log[i].argv) = <<Directive(token).require[1].name>>

C4_BatchedUnlessFlagged ==
    (pc = "done" /\ ~IS_CONDA) =>
        \A token \in call.requires :
            ReachedPip(token) =>
                IF CarriesAFlag(token) THEN OnItsOwn(token)
                ELSE InTheBatch(token)

\* C4 as amended: a directive has its own command exactly when its list
\* of translated flags is not empty, that is when it carries --pre or
\* --upgrade, or PIP_UPGRADE is set, or pipenv is not active and it
\* carries --no-deps, --only-binary or --prefer-binary; all the other
\* directives that reach the standard installer are in the one batch.
HasTranslatedFlag(token) ==
    \/ Carries(token, FlagPre)
    \/ Carries(token, FlagUpgrade)
    \/ PIP_UPGRADE
    \/ /\ ~PIPENV_ACTIVE
       /\ \E flag \in {FlagNoDeps, FlagOnlyBinary, FlagPreferBinary} :
             Carries(token, flag)

C4_BatchedUnlessTranslatedFlag ==
    (pc = "done" /\ ~IS_CONDA) =>
        \A token \in call.requires :
            ReachedPip(token) =>
                IF HasTranslatedFlag(token) THEN OnItsOwn(token)
                ELSE InTheBatch(token)

\* "a" has been installed by the batch and "b --no-deps" by its own command
C4_Witness ==
    /\ pc = "done"
    /\ ~IS_CONDA
    /\ call.requires = {TokA, TokBNoDeps}
    /\ InTheBatch(TokA)
    /\ OnItsOwn(TokBNoDeps)

----------------------------------------------------------------------------
(* C5: when conda is detected, install_requirements never invokes pip,     *)
(* pipenv or pacman for any directive, even when a conda search or         *)
(* install command exits non-zero.                                         *)

C5_CondaOnly ==
    IS_CONDA =>
        /\ \A i \in 1..Len(log) :
              log[i].prog \in {"conda_search", "conda_install"}
        /\ pc \notin {"pacman_search", "pacman_install", "pip", "pip_retry",
                      "pip_batch"}

\* under conda on MSYS2 a search and the install have failed and the call
\* has returned
C5_Witness ==
    /\ IS_CONDA
    /\ IS_MINGW
    /\ pc = "done"
    /\ \E i, j \in 1..Len(log) :
          /\ log[i].prog = "conda_search" /\ log[i].rc # 0
          /\ log[j].prog = "conda_install" /\ log[j].rc # 0

----------------------------------------------------------------------------
(* C6: under pacman, an eligible directive with a package name for which   *)
(* every candidate search reports "not found" is not dropped: pip is       *)
(* invoked for it, alone or in the batch, later in the same call.          *)

Searches(token) ==
    {i \in 1..Len(log) :
        log[i].prog = "pacman_search" /\ log[i].req = Some(token)}

\* every candidate of the directive was searched and none was found
NoCandidateFound(token) ==
    /\ Searches(token) # {}
    /\ \A i \in Searches(token) : log[i].rc = 1
    /\ Cardinality(Searches(token))
           = Len(CandidateNames(Directive(token).require[1].name))

C6_NotFoundFallsThroughToPip ==
    (pc = "done" /\ IS_MINGW /\ ~IS_CONDA) =>
        \A token \in call.requires :
            NoCandidateFound(token) =>
                \E j \in 1..Len(log) :
                    /\ IsPip(log[j])
                    /\ token \in Served(log[j])
                    /\ \A i \in Searches(token) : i < j

\* "a" was searched under both names, found under none, and pip has run
C6_Witness ==
    /\ pc = "done"
    /\ IS_MINGW
    /\ ~IS_CONDA
    /\ call.requires = {TokA}
    /\ NoCandidateFound(TokA)
    /\ IsPip(log[Len(log)])

----------------------------------------------------------------------------
(* C7: under pacman, once the search for a candidate reports it as         *)
(* already installed, that candidate is in the report and nothing more is  *)
(* run for the directive: no install sub-command, no search of a later     *)
(* candidate, no pip command, alone or in the batch.                       *)

ReportsInstalled(e) ==
    e.prog = "pacman_search" /\ e.rc = 0 /\ e.out

C7_InstalledEndsTheDirective ==
    \A i \in 1..Len(log) :
        ReportsInstalled(log[i]) =>
            /\ log[i].argv[1] \in Elems(installed_packages)
            /\ log[i].req[1] \notin Elems(batch_reqs)
            /\ \A j \in (i + 1)..Len(log) : log[j].req # log[i].req
            /\ req = log[i].req =>
                  pc \notin {"pacman_search", "pacman_install", "pip",
                             "pip_retry"}

\* the first candidate was reported installed: one command, one entry
C7_Witness ==
    /\ pc = "done"
    /\ Len(log) = 1
    /\ ReportsInstalled(log[1])
    /\ Len(CandidateNames(Directive(log[1].req[1]).require[1].name)) > 1
    /\ installed_packages = log[1].argv

----------------------------------------------------------------------------
(* C8: under pacman, the install sub-command is run only for a candidate   *)
(* whose search reported it as existing (the search succeeded and the      *)
(* package is not installed), and for exactly that candidate; a search     *)
(* that ends with any other status never leads to an install.              *)

C8_InstallOnlyWhenSearchSucceeded ==
    \A j \in 1..Len(log) :
        log[j].prog = "pacman_install" =>
            /\ j > 1
            /\ log[j - 1].prog = "pacman_search"
            /\ log[j - 1].req = log[j].req
            /\ log[j - 1].argv = log[j].argv
            /\ log[j - 1].rc = 0
            /\ ~log[j - 1].out

\* what holds instead: the install follows the search of the same
\* candidate unless that search exited 1 or reported it installed
C8_InstallUnlessNotFoundOrInstalled ==
    \A j \in 1..Len(log) :
        log[j].prog = "pacman_install" =>
            /\ j > 1
            /\ log[j - 1].prog = "pacman_search"
            /\ log[j - 1].req = log[j].req
            /\ log[j - 1].argv = log[j].argv
            /\ log[j - 1].rc # 1
            /\ ~ReportsInstalled(log[j - 1])

----------------------------------------------------------------------------
(* C9: a non-zero exit of a package-manager command raises no exception    *)
(* and does not stop the run: nothing is recorded for the failed command,  *)
(* every remaining eligible directive is still attempted and the call      *)
(* returns its report.                                                     *)

\* the constraints each token of the pool is written with
ConstraintsOf ==
    [token \in TokenPool |-> ParseAll(NoDirective, Split(token, " "))]

\* the constraints of the token exclude the platform or the interpreter
Excluded(token) ==
    LET d == ConstraintsOf[token]
    IN  \/ ~is_supported_platform(
                IF d.platform = None THEN PyNone ELSE PyStr(d.platform[1]),
                None)
        \/ /\ d.python_version \notin {None, Some(<<>>)}
           /\ is_supported_python(d.python_version[1]) = Returned(FALSE)

Attempted(token) == \E i \in 1..Len(log) : token \in Served(log[i])

C9_AfterFailureState ==
    /\ pc = "raised" => FilterRaises(dir)
    /\ pc = "done" =>
          /\ ret = Some(installed_packages)
          /\ \A token \in call.requires :
                (~Excluded(token) /\ Directive(token).require # None)
                    => Attempted(token)

C9_FailedCommandStep ==
    (Len(log') = Len(log) + 1 /\ log'[Len(log')].rc # 0) =>
        /\ installed_packages' = installed_packages
        /\ pc' # "raised"

C9_FailureIsSilent ==
    []C9_AfterFailureState /\ [][C9_FailedCommandStep]_vars

\* the command of one directive failed, the command of the next one
\* succeeded, and the call returned the one package
C9_Witness ==
    /\ pc = "done"
    /\ Len(log) = 2
    /\ log[1].rc # 0 /\ log[1].req # None
    /\ log[2].rc = 0 /\ log[2].req # None
    /\ log[1].req # log[2].req
    /\ ret = Some(<<Directive(log[2].req[1]).require[1].name>>)

----------------------------------------------------------------------------
(* C10: a directive whose platform constraint or python-version            *)
(* constraint excludes the current environment causes no package-manager   *)
(* invocation on any backend and contributes no entry to the report.       *)

C10_ExcludedDoesNothing ==
    /\ \A token \in call.requires :
          Excluded(token) =>
              /\ \A i \in 1..Len(log) : log[i].req # Some(token)
              /\ token \notin Elems(batch_reqs)
    /\ \A k \in 1..Len(installed_packages) :
          \E i \in 1..Len(log) :
              /\ installed_packages[k] \in Elems(log[i].argv)
              /\ \A token \in Served(log[i]) : ~Excluded(token)

\* on macos "foo --platform=linux" has done nothing and "b --no-deps" is
\* the whole report
C10_Witness ==
    /\ pc = "done"
    /\ PLATFORM = "macos"
    /\ call.requires = {TokFooLinux, TokBNoDeps}
    /\ Excluded(TokFooLinux)
    /\ installed_packages = <<NameB>>
    /\ \A i \in 1..Len(log) : log[i].req = Some(TokBNoDeps)

----------------------------------------------------------------------------
(* Parsing of requirement tokens written from enumerated sub-tokens.       *)

MaxParts == 3

NameX == <<"x">>
TextGe310 == <<">", "=", "3", ".", "1", "0">>

\* a sub-token as it is written: what it is meant to say and its text
Written(kind, value, text) == [kind |-> kind, value |-> value, text |-> text]

SubTokens ==
    {Written("name", NameA, NameA),
     Written("name", NameB, NameB),
     Written("empty", <<>>, <<>>),
     Written("alias_for_conda", NamePyLief, FlagConda \o NamePyLief),
     Written("alias_for_mingw", NameX, FlagMingw \o NameX),
     Written("no_deps", <<>>, FlagNoDeps),
     Written("platform", TagLinux, FlagPlatform \o TagLinux),
     Written("platform", TagMacos, FlagPlatform \o TagMacos),
     Written("python_version", TextGe310, FlagPythonVersion \o TextGe310),
     Written("only_binary", <<>>, FlagOnlyBinary),
     Written("pre_release", <<>>, FlagPre),
     Written("prefer_binary", <<>>, FlagPreferBinary),
     Written("upgrade", <<>>, FlagUpgrade)}

\* the token `req` that the sub-tokens make, one space between two
TokenOf(parts) == Join([i \in 1..Len(parts) |-> parts[i].text], " ")

InitParse ==
    /\ PLATFORM = "linux"
    /\ IS_CONDA = FALSE
    /\ IS_FINAL_VERSION = TRUE
    /\ PIP_UPGRADE \in BOOLEAN
    /\ PIPENV_ACTIVE = FALSE
    /\ version_info = <<3, 11, 2>>
    /\ \E n \in 0..MaxParts :
          \E parts \in [1..n -> SubTokens] :
              call = [fn |-> "parse", parts |-> parts, req |-> TokenOf(parts)]
    /\ ret = Pending
    /\ RunIdle

\* the inner loop `for req_data in req.split(" ")` on one token
CallParse ==
    /\ call.fn = "parse"
    /\ ret = Pending
    /\ ret' = Some(ParseReq(call.req))
    /\ UNCHANGED <<envVars, call, runVars>>

NextParse == CallParse

SpecParse == InitParse /\ [][NextParse]_vars

----------------------------------------------------------------------------
(* C11: parsing a token does not depend on the order of its flags: every   *)
(* permutation of the same sub-tokens yields the same flag fields; a later *)
(* duplicate of a valued flag overwrites the earlier one; the base package *)
(* is the last non-flag, non-empty sub-token.                              *)

ValuedFlags == {"alias_for_conda", "alias_for_mingw", "platform",
                "python_version"}
SwitchFlags == {"no_deps", "only_binary", "pre_release", "prefer_binary"}

\* the permutations of 1..n
Orderings ==
    [n \in 0..(MaxParts + 1) |->
        {f \in [1..n -> 1..n] : \A i, j \in 1..n : i # j => f[i] # f[j]}]

Positions(parts, kind) == {i \in 1..Len(parts) : parts[i].kind = kind}

Max(S) == CHOOSE m \in S : \A k \in S : k <= m

\* the value of the last sub-token of the kind, when there is one
LastValue(parts, kind) ==
    IF Positions(parts, kind) = {} THEN None
    ELSE Some(parts[Max(Positions(parts, kind))].value)

FlagFields(d) ==
    [f \in ValuedFlags \cup SwitchFlags \cup {"upgrade"} |-> d[f]]

\* the fields of the directive as the three rules of the claim give them
LastWins(parts, d) ==
    /\ \A f \in ValuedFlags : d[f] = LastValue(parts, f)
    /\ \A f \in SwitchFlags : d[f] = (Positions(parts, f) # {})
    /\ d.upgrade = (PIP_UPGRADE \/ Positions(parts, "upgrade") # {})
    /\ d.require =
          IF Positions(parts, "name") = {} THEN None
          ELSE Some(Requirement(LastValue(parts, "name")[1]))

\* no valued flag is written twice with two values
NoConflict(parts) ==
    \A i, j \in 1..Len(parts) :
        (parts[i].kind = parts[j].kind /\ parts[i].kind \in ValuedFlags)
            => parts[i].value = parts[j].value

SameFlagsInEveryOrder(parts, d) ==
    \A f \in Orderings[Len(parts)] :
        FlagFields(ParseReq(TokenOf([i \in 1..Len(parts) |-> parts[f[i]]])))
            = FlagFields(d)

\* the claim as it is written: every permutation, duplicates included
C11_SameFlagsInEveryOrder ==
    ret # Pending =>
        /\ SameFlagsInEveryOrder(call.parts, ret[1])
        /\ LastWins(call.parts, ret[1])

\* the flag fields are those of every permutation when no valued flag is
\* written twice with two values; in every case the last one wins
C11_LastWinsAndOrderFreeWithoutConflict ==
    ret # Pending =>
        /\ LastWins(call.parts, ret[1])
        /\ NoConflict(call.parts) =>
              SameFlagsInEveryOrder(call.parts, ret[1])

\* two names around a flag, and the same platform flag twice
C11_Witness ==
    /\ ret # Pending
    /\ Len(call.parts) = 3
    /\ call.parts[1].kind = "name"
    /\ call.parts[2].kind = "platform"
    /\ call.parts[3].kind = "name"
    /\ call.parts[1].value # call.parts[3].value
    /\ ret[1].require = Some(Requirement(call.parts[3].value))
    /\ ret[1].platform = Some(call.parts[2].value)

----------------------------------------------------------------------------
(* install_requirements on tokens with empty aliases, malformed            *)
(* python-version constraints and a name without a cased character.        *)

NameF   == <<"f">>
NameG   == <<"g">>
NameH   == <<"h">>
NameP   == <<"p">>
NameQ   == <<"q">>
NameR   == <<"r">>
NameY   == <<"y">>
Name7   == <<"7">>

TokFNoConda  == Join(<<NameF, FlagConda>>, " ")
TokGNoMingw  == Join(<<NameG, FlagMingw>>, " ")
TokHAliases  == Join(<<NameH, FlagMingw \o NameX, FlagConda \o NameY>>, " ")
TokPEmpty    == Join(<<NameP, FlagPythonVersion>>, " ")
TokQNoNumber == Join(<<NameQ, FlagPythonVersion \o OpGe>>, " ")
TokRNoOp     == Join(<<NameR, FlagPythonVersion \o <<"3", ".", "1", "0">>>>,
                     " ")
Tok7         == Name7

CornerPool == {TokA, TokFNoConda, TokGNoMingw, TokHAliases, TokPEmpty,
               TokQNoNumber, TokRNoOp, Tok7}

CornerSets(n) ==
    {s \in SUBSET CornerPool : Cardinality(s) >= 1 /\ Cardinality(s) <= n}

InitCorner ==
    /\ \E e \in Environments :
          \E tokens \in CornerSets(ReqLimit(e)) : Entered(e, tokens)
    /\ version_info = <<3, 11, 2>>
    /\ extra_index_url \in {<<>>, Urls(MaxExtra)}

SpecCorner == InitCorner /\ [][Next]_vars

----------------------------------------------------------------------------
(* C12: a directive with an empty conda alias under conda, or an empty     *)
(* mingw alias under pacman, is skipped entirely: no command of any        *)
(* backend, pip included, is run for it and it is never in the report.     *)

\* the token is written with the flag and nothing after its "="
WrittenWithEmpty(token, flag) ==
    LET parts == Split(token, " ")
    IN  /\ \E i \in 1..Len(parts) : parts[i] = flag
        /\ \A i \in 1..Len(parts) :
              StartsWith(parts[i], flag) => parts[i] = flag

SkippedByAlias(token) ==
    \/ IS_CONDA /\ WrittenWithEmpty(token, FlagConda)
    \/ ~IS_CONDA /\ IS_MINGW /\ WrittenWithEmpty(token, FlagMingw)

C12_EmptyAliasSkips ==
    /\ \A token \in call.requires :
          SkippedByAlias(token) =>
              /\ \A i \in 1..Len(log) : log[i].req # Some(token)
              /\ token \notin Elems(batch_reqs)
              /\ req = Some(token) => pc \in {"loop", "done", "pip_batch",
                                              "conda_batch"}
    /\ \A k \in 1..Len(installed_packages) :
          \E i \in 1..Len(log) :
              /\ installed_packages[k] \in Elems(log[i].argv)
              /\ \A token \in Served(log[i]) : ~SkippedByAlias(token)

\* under conda the call for "f --conda=" has returned without a command
C12_Witness ==
    /\ IS_CONDA
    /\ pc = "done"
    /\ call.requires = {TokFNoConda}
    /\ SkippedByAlias(TokFNoConda)
    /\ log = <<>>
    /\ ret = Some(<<>>)

\* the same under pacman for "g --mingw="
C12_WitnessMingw ==
    /\ ~IS_CONDA
    /\ IS_MINGW
    /\ pc = "done"
    /\ call.requires = {TokGNoMingw}
    /\ SkippedByAlias(TokGNoMingw)
    /\ log = <<>>
    /\ ret = Some(<<>>)

----------------------------------------------------------------------------
(* main: the platform test of the sample, the option tests, the call of    *)
(* install_requires and the return statements.                             *)

PyInt(n) == [kind |-> "int", val |-> n]

NamePip == <<"p", "i", "p">>
TokPipUpgrade == Join(<<NamePip, FlagUpgrade>>, " ")

\* args and test_data.get("platform") of one run of main
MainCalls ==
    {[fn |-> "main", platform |-> c, platform_in_use |-> None,
      basic_requirements |-> b, develop |-> d, editable |-> e] :
         c \in PlatformArgs, b \in BOOLEAN, d \in BOOLEAN, e \in BOOLEAN}

InitMain ==
    /\ PLATFORM \in PlatformFamilies
    /\ IS_CONDA = FALSE
    /\ IS_FINAL_VERSION = TRUE
    /\ PIP_UPGRADE = FALSE
    /\ PIPENV_ACTIVE \in BOOLEAN
    /\ version_info = <<3, 11, 2>>
    /\ call \in MainCalls
    /\ ret = Pending
    /\ requires = {}
    /\ extra_index_url = <<>>
    /\ installed_packages = <<>>
    /\ conda_pkgs = <<>>
    /\ pip_pkgs = <<>>
    /\ pc = "main"
    /\ req = None
    /\ dir = NoDirective
    /\ packages = <<>>
    /\ idx = 0
    /\ args = NoCommand
    /\ installed = FALSE
    /\ log = <<>>
    /\ batch_reqs = <<>>

\* a return statement of main
MainReturns(at, value) ==
    /\ pc' = at
    /\ ret' = Some(value)

\* main from its entry to a return or to the call of install_requires
MainTests ==
    /\ pc = "main"
    /\ IF ~is_supported_platform(call.platform, None)
       THEN MainReturns("unsupported", PyInt(-1))
       ELSE IF call.basic_requirements
       THEN pc' = "install_requires" /\ ret' = ret
       ELSE IF PIPENV_ACTIVE /\ (call.develop \/ call.editable)
       THEN MainReturns("invalid_option", PyInt(-1))
       ELSE pc' = "install_requires" /\ ret' = ret
    /\ UNCHANGED <<envVars, call, requires, extra_index_url,
                   installed_packages, conda_pkgs, pip_pkgs, req, dir,
                   packages, idx, args, installed, log, batch_reqs>>

\* install_requires: sys.exit(1) without pyproject.toml; else the basic
\* requirement "pip --upgrade" is installed unless pipenv is active
InstallRequires ==
    /\ pc = "install_requires"
    /\ \E pyproject_toml_exists \in BOOLEAN, returncode \in {0, 1} :
          IF ~pyproject_toml_exists
          THEN /\ pc' = "exited"
               /\ UNCHANGED <<log, installed_packages>>
          ELSE /\ pc' = "after_install_requires"
               /\ IF PIPENV_ACTIVE
                  THEN UNCHANGED <<log, installed_packages>>
                  ELSE /\ log' = Append(log,
                              Ran(PipCommand(ParseReq(TokPipUpgrade), <<>>),
                                  Some(TokPipUpgrade), returncode, FALSE))
                       /\ installed_packages' =
                              IF returncode = 0
                              THEN Append(installed_packages, NamePip)
                              ELSE installed_packages
    /\ UNCHANGED <<envVars, callVars, requires, extra_index_url, conda_pkgs,
                   pip_pkgs, req, dir, packages, idx, args, installed,
                   batch_reqs>>

\* `return 0` after install_requires(), `return None` inside `with pushd`
MainCompletes ==
    /\ pc = "after_install_requires"
    /\ MainReturns("completed",
                   IF call.basic_requirements THEN PyInt(0) ELSE PyNone)
    /\ UNCHANGED <<envVars, call, requires, extra_index_url,
                   installed_packages, conda_pkgs, pip_pkgs, req, dir,
                   packages, idx, args, installed, log, batch_reqs>>

NextMain ==
    \/ MainTests
    \/ InstallRequires
    \/ MainCompletes

SpecMain == InitMain /\ [][NextMain]_vars

----------------------------------------------------------------------------
(* C13: main returns -1 when the platform constraint of the sample         *)
(* excludes the current platform, and then no package-manager command has  *)
(* been invoked; on normal completion, with or without                     *)
(* --basic-requirements, main returns 0.                                   *)

ReturnedInt(n) == ret # Pending /\ ret[1].kind = "int" /\ ret[1].val = n

\* main has left through one of its return statements
MainReturned == pc \in {"unsupported", "invalid_option", "completed"}

UnsupportedReturnsMinusOne ==
    (MainReturned /\ ~PlatformExpected) => (ReturnedInt(-1) /\ log = <<>>)

C13_MainReturnCodes ==
    /\ UnsupportedReturnsMinusOne
    /\ pc = "completed" => ReturnedInt(0)

\* what main does return: 0 with --basic-requirements, None without
C13_MainReturnsNoneWithoutBasic ==
    /\ UnsupportedReturnsMinusOne
    /\ pc = "completed" =>
          IF call.basic_requirements THEN ReturnedInt(0)
          ELSE ret # Pending /\ ret[1].kind = "none"

----------------------------------------------------------------------------
(* C14: every malformed python-version constraint (missing operator,       *)
(* missing version numbers, or nothing after "--python-version") is a      *)
(* fatal error that aborts install_requirements; it is never evaluated to  *)
(* eligible or ineligible and never treated as no constraint.              *)

\* the texts written after "--python-version" in the token
VersionTexts(token) ==
    LET parts == Split(token, " ")
    IN  {SliceFrom(parts[i], Len(FlagPythonVersion)) :
            i \in {j \in 1..Len(parts) :
                      StartsWith(parts[j], FlagPythonVersion)}}

\* a comparison operator followed by a number
WellFormedVersion(text) ==
    \E op \in ComparisonOps :
        /\ StartsWith(text, op)
        /\ Len(text) > Len(op)
        /\ text[Len(op) + 1] \in DigitSet

Malformed(token) ==
    \E text \in VersionTexts(token) : ~WellFormedVersion(text)

C14_MalformedIsFatal ==
    \A token \in call.requires :
        (Malformed(token) /\ token \notin requires) => pc = "raised"

\* what the code does: only a constraint without operator raises
C14_OnlyMissingOperatorIsFatal ==
    /\ (TokRNoOp \in call.requires /\ TokRNoOp \notin requires)
           => pc = "raised"
    /\ pc = "raised" => req = Some(TokRNoOp)
    /\ pc = "done" =>
          \A token \in call.requires \cap {TokPEmpty, TokQNoNumber} :
              SkippedByAlias(token) \/ Attempted(token)

----------------------------------------------------------------------------
(* The list of pacman candidates for enumerated package names.             *)

MaxNameLen == 3

NameChars == {"a", "B", "_", "-", "7"}

PackageNames == UNION {[1..n -> NameChars] : n \in 1..MaxNameLen}

InitCandidates ==
    /\ PLATFORM = "mingw"
    /\ IS_CONDA = FALSE
    /\ IS_FINAL_VERSION = TRUE
    /\ PIP_UPGRADE = FALSE
    /\ PIPENV_ACTIVE = FALSE
    /\ version_info = <<3, 11, 2>>
    /\ call \in {[fn |-> "packages", package |-> n] : n \in PackageNames}
    /\ ret = Pending
    /\ RunIdle

\* the statements that build `packages` from require.name
CallCandidates ==
    /\ call.fn = "packages"
    /\ ret = Pending
    /\ ret' = Some(CandidateNames(call.package))
    /\ UNCHANGED <<envVars, call, runVars>>

NextCandidates == CallCandidates

SpecCandidates == InitCandidates /\ [][NextCandidates]_vars

----------------------------------------------------------------------------
(* C15: the candidate list is, in order: "python-<name>", the raw name;    *)
(* lowercased copies of these if and only if the name has an uppercase     *)
(* character; then copies of all so far with "_" replaced by "-" if the    *)
(* name contains "_", otherwise with "-" replaced by "_" if it contains    *)
(* "-".                                                                    *)

HasUpper(s) == \E i \in 1..Len(s) : s[i] \in Elems(UpperLetters)

Copies(list, F(_)) == list \o [i \in 1..Len(list) |-> F(list[i])]

ToDash(s) == Replace(s, "_", "-")
ToUnderscore(s) == Replace(s, "-", "_")

\* the list with the lowercased copies, or without them
ExpectedCandidates(name, lowered) ==
    LET base == <<PythonDash \o name, name>>
        cased == IF lowered THEN Copies(base, Lower) ELSE base
    IN  IF Contains(name, "_") THEN Copies(cased, ToDash)
        ELSE IF Contains(name, "-") THEN Copies(cased, ToUnderscore)
        ELSE cased

C15_CandidateList ==
    (call.fn = "packages" /\ ret # Pending) =>
        ret[1] = ExpectedCandidates(call.package, HasUpper(call.package))

\* what the code builds: lowercased copies whenever the name is not
\* all-lowercase in the sense of str.islower, a name without letters included
C15_CandidateListByIslower ==
    (call.fn = "packages" /\ ret # Pending) =>
        ret[1] = ExpectedCandidates(
                     call.package,
                     HasUpper(call.package)
                       \/ \A i \in 1..Len(call.package) :
                             call.package[i] \notin Elems(LowerLetters))

----------------------------------------------------------------------------
(* C16: for one directive pip is invoked at most twice in a call; the      *)
(* second invocation happens only if the first exited non-zero, the        *)
(* interpreter is a preview release and the directive did not request      *)
(* --pre; a failed retry records nothing and is not followed by another    *)
(* retry; no other backend command is ever run again.                      *)

PipRuns(token) ==
    {i \in 1..Len(log) : IsPip(log[i]) /\ token \in Served(log[i])}

Min(S) == CHOOSE m \in S : \A k \in S : m <= k

RetryPolicy ==
    \A token \in call.requires :
        LET runs == PipRuns(token)
        IN  /\ Cardinality(runs) <= 2
            /\ Cardinality(runs) = 2 =>
                  LET first == Min(runs)
                      second == Max(runs)
                  IN  /\ log[first].rc # 0
                      /\ ~IS_FINAL_VERSION
                      /\ ~ParseReq(token).pre_release
                      /\ log[second].argv = Append(log[first].argv, FlagPre)
                      /\ log[second].rc # 0 =>
                            Count(installed_packages,
                                  Directive(token).require[1].name) = 0

\* no conda or pacman command is run twice for a directive
NothingElseRunsAgain ==
    \A i, j \in 1..Len(log) :
        (i < j /\ ~IsPip(log[i]) /\ log[i].req = log[j].req)
            => (log[i].prog # log[j].prog \/ log[i].argv # log[j].argv)

C16_OnlyPipRetriesOnce == RetryPolicy /\ NothingElseRunsAgain

\* the part of C16 about pip alone
C16_PipRetriesOnce == RetryPolicy

----------------------------------------------------------------------------
(* C17: when install_requirements returns, every identifier in the report  *)
(* was confirmed by a successful step of this call (an install command     *)
(* that exited 0, or a pacman search that reported the package             *)
(* installed), and the requirements of a batch command are in the report   *)
(* if and only if that command exited 0, all of them or none.              *)

IsInstall(e) ==
    e.prog \in {"pip", "pipenv", "conda_install", "pacman_install"}

Confirms(e, identifier) ==
    /\ (IsInstall(e) /\ e.rc = 0) \/ ReportsInstalled(e)
    /\ identifier \in Elems(e.argv)

BatchNames == {Directive(token).require[1].name : token \in Elems(batch_reqs)}

C17_ReportIsConfirmed ==
    pc = "done" =>
        /\ ret = Some(installed_packages)
        /\ \A k \in 1..Len(installed_packages) :
              \E i \in 1..Len(log) : Confirms(log[i], installed_packages[k])
        /\ \A i \in 1..Len(log) :
              log[i].req = None =>
                  IF log[i].rc = 0
                  THEN \A name \in BatchNames :
                          Count(installed_packages, name) = 1
                  ELSE \A name \in BatchNames :
                          Count(installed_packages, name) = 0

\* the batch of two directives exited 0 and both are the report
C17_Witness ==
    /\ pc = "done"
    /\ Len(batch_reqs) = 2
    /\ Len(log) = 1
    /\ log[1].req = None
    /\ log[1].rc = 0
    /\ Len(installed_packages) = 2
    /\ BatchNames = Elems(installed_packages)

----------------------------------------------------------------------------
(* bdist_appimage: finalize_options on a command whose target_name is      *)
(* set, as the tests of the command call it.                               *)

Version00 == <<"0", ".", "0">>
Version01 == <<"0", ".", "1">>
Version12 == <<"1", ".", "2">>

NameMytest == <<"m", "y", "t", "e", "s", "t">>

TargetNames == {NameMytest, NameFoo, NameA, NameB, NameC}
Versions == {Version00, Version01, Version12}

FinalizeOptionsIgnoringTargetVersion(cmd, distribution) ==
    [cmd EXCEPT !.target_version = Some(distribution.version),
                !.fullname = Some(Join(<<cmd.target_name,
                                         distribution.version>>, "-"))]

\* finalize_options: the version defaults to the one of the distribution,
\* fullname is made of the name and the version
FinalizeOptions(cmd, distribution) ==
    LET version == IF cmd.target_version = None THEN distribution.version
                   ELSE cmd.target_version[1]
    IN  [cmd EXCEPT !.target_version = Some(version),
                    !.fullname = Some(Join(<<cmd.target_name, version>>, "-"))]

InitAppImage ==
    /\ PLATFORM = "linux"
    /\ IS_CONDA = FALSE
    /\ IS_FINAL_VERSION = TRUE
    /\ PIP_UPGRADE = FALSE
    /\ PIPENV_ACTIVE = FALSE
    /\ version_info = <<3, 11, 2>>
    /\ call \in {[fn |-> "finalize_options",
                  cmd |-> [target_name |-> n, target_version |-> v,
                           fullname |-> None],
                  distribution |-> [name |-> NameFoo, version |-> d]] :
                     n \in TargetNames,
                     v \in {None} \cup {Some(x) : x \in Versions},
                     d \in Versions}
    /\ ret = Pending
    /\ RunIdle

CallFinalizeOptions ==
    /\ call.fn = "finalize_options"
    /\ ret = Pending
    /\ ret' = Some(FinalizeOptions(call.cmd, call.distribution))
    /\ UNCHANGED <<envVars, call, runVars>>

NextAppImage == CallFinalizeOptions

SpecAppImage == InitAppImage /\ [][NextAppImage]_vars

----------------------------------------------------------------------------
(* C18: after finalize_options on the bdist_appimage command, fullname is  *)
(* "<target_name>-<version>", where version is target_version when it was  *)
(* set and the version of the distribution otherwise.                      *)

C18_Fullname ==
    (call.fn = "finalize_options" /\ ret # Pending) =>
        /\ call.cmd.target_version = None =>
              ret[1].fullname = Some(call.cmd.target_name \o <<"-">>
                                       \o call.distribution.version)
        /\ call.cmd.target_version # None =>
              ret[1].fullname = Some(call.cmd.target_name \o <<"-">>
                                       \o call.cmd.target_version[1])

\* test_bdist_appimage_target_name_and_version: "mytest-0.1" over "0.0"
C18_Witness ==
    /\ call.fn = "finalize_options"
    /\ ret # Pending
    /\ call.cmd.target_name = NameMytest
    /\ call.cmd.target_version = Some(Version01)
    /\ call.distribution.version = Version00
    /\ ret[1].fullname = Some(<<"m", "y", "t", "e", "s", "t", "-",
                                "0", ".", "1">>)

----------------------------------------------------------------------------
(* C19: under pacman, a non-zero exit of the install sub-command for a     *)
(* found candidate is terminal for the directive: no further candidate is  *)
(* searched and pip is not invoked for it.                                 *)

FailedInstalls ==
    {i \in 1..Len(log) : log[i].prog = "pacman_install" /\ log[i].rc # 0}

C19_FailedInstallIsTerminal ==
    \A i \in FailedInstalls :
        /\ \A j \in (i + 1)..Len(log) :
              /\ log[j].req # log[i].req
              /\ IsPip(log[j]) => log[i].req[1] \notin Served(log[j])
        /\ log[i].req[1] \notin Elems(batch_reqs)

\* how many candidates of its directive were searched up to command i
SearchedUpTo(i) ==
    Cardinality({j \in 1..i : /\ log[j].prog = "pacman_search"
                              /\ log[j].req = log[i].req})

\* the directive got a candidate after command i
InstalledAfter(i) ==
    \E j \in (i + 1)..Len(log) :
        /\ log[j].req = log[i].req
        /\ ReportsInstalled(log[j])
             \/ (log[j].prog = "pacman_install" /\ log[j].rc = 0)

\* what the code does: the failed install records nothing, the next
\* candidate is searched, and pip gets the directive when no candidate
\* ends up installed
C19_FailedInstallGoesOn ==
    \A i \in FailedInstalls :
        LET token == log[i].req[1]
            names == CandidateNames(Directive(token).require[1].name)
            k == SearchedUpTo(i)
        IN  /\ log[i].argv[1] \in Elems(installed_packages) =>
                  \E j \in 1..Len(log) :
                      j # i /\ Confirms(log[j], log[i].argv[1])
            /\ (k < Len(names) /\ Len(log) > i) =>
                  /\ log[i + 1].prog = "pacman_search"
                  /\ log[i + 1].req = log[i].req
                  /\ log[i + 1].argv = <<MingwPackage(names[k + 1])>>
            /\ pc = "done" =>
                  \/ InstalledAfter(i)
                  \/ \E j \in (i + 1)..Len(log) :
                        IsPip(log[j]) /\ token \in Served(log[j])

\* the install of the first candidate of "a" failed, the second one was
\* not found and pip has run for "a"
C19_Witness ==
    /\ pc = "done"
    /\ call.requires = {TokA}
    /\ Len(log) = 4
    /\ 2 \in FailedInstalls
    /\ log[3].prog = "pacman_search" /\ log[3].rc = 1
    /\ IsPip(log[4])

----------------------------------------------------------------------------
(* C20: within one call the commands run strictly one after another, at    *)
(* most one batched pip command and at most one batched conda command are  *)
(* run, a batched command starts only after every command of a single      *)
(* directive has finished, and a batch with no directives runs no command. *)

Batches == {i \in 1..Len(log) : log[i].req = None}

C20_BatchesLast ==
    /\ Cardinality({i \in Batches : IsPip(log[i])}) <= 1
    /\ Cardinality({i \in Batches : log[i].prog = "conda_install"}) <= 1
    /\ \A i \in Batches :
          /\ \A j \in (i + 1)..Len(log) : j \in Batches
          /\ batch_reqs # <<>>
          /\ requires = {}
    /\ pc \in {"pip_batch", "conda_batch"} =>
          (requires = {} /\ batch_reqs # <<>>)

\* a step runs at most one command to its end and keeps the history
C20_OneCommandAtATime ==
    /\ Len(log') <= Len(log) + 1
    /\ SubSeq(log', 1, Len(log)) = log

C20_SequentialThenBatch ==
    []C20_BatchesLast /\ [][C20_OneCommandAtATime]_vars

\* the command of one directive, then the batch of the other one
C20_Witness ==
    /\ pc = "done"
    /\ Len(log) = 2
    /\ log[1].req # None
    /\ 2 \in Batches
    /\ Len(batch_reqs) = 1

----------------------------------------------------------------------------
(* C21: for a python-version constraint with fewer than three numeric      *)
(* components, is_supported_python gives the same result as the same       *)
(* constraint with the missing components filled with 0, for every         *)
(* comparison operator and every interpreter version.                      *)

\* the components of a constraint with the missing ones filled with 0
Padded(comps) == [i \in 1..3 |-> IF i <= Len(comps) THEN comps[i] ELSE 0]

ShortConstraint ==
    /\ call.fn = "is_supported_python"
    /\ ret # Pending
    /\ call.op \in ComparisonOps
    /\ Len(call.comps) \in {1, 2}

\* the result for the constraint written with three components
PaddedResult ==
    is_supported_python(ConstraintText(call.op, Padded(call.comps)))

\* C21 as stated: "==3.10" under 3.10.0 is false, "==3.10.0" is true
C21_ShortAsPadded ==
    ShortConstraint => ret[1] = PaddedResult

\* C21, what the code does: the required tuple keeps its length, and a
\* tuple that is a prefix of the interpreter's 3-tuple is smaller than it,
\* so <=, >, == and != answer the opposite of the padded constraint when
\* the interpreter is exactly the padded version; < and >= always agree.
C21_ShortDiffersAtThePaddedVersion ==
    ShortConstraint =>
        /\ ~ret[1].raised
        /\ ~PaddedResult.raised
        /\ (ret[1].value # PaddedResult.value) <=>
              /\ version_info = Padded(call.comps)
              /\ call.op \in {OpLe, OpGt, OpEq, OpNe}

\* "==3.10" has been evaluated under the interpreter 3.10.0 and is false
C21_Witness ==
    /\ call.fn = "is_supported_python"
    /\ call.python_version = <<"=", "=", "3", ".", "1", "0">>
    /\ version_info = <<3, 10, 0>>
    /\ ret = Some(Returned(FALSE))

----------------------------------------------------------------------------
(* install_requirements on tokens without a base package expression,       *)
(* alone and next to tokens that name a package, on every backend.         *)

TokEmpty        == <<>>
TokSpace        == <<" ">>
TokFlagsOnly    == Join(<<FlagNoDeps, FlagOnlyBinary, FlagPre>>, " ")
TokUpgradeOnly  == Join(<<FlagUpgrade, <<>>, FlagPreferBinary>>, " ")
TokCondaOnly    == FlagConda \o NameY
TokMingwOnly    == FlagMingw \o NameX
TokPlatformOnly == FlagPlatform \o TagLinux
TokVersionOnly  == FlagPythonVersion \o TextGe310
TokNoOpOnly     == FlagPythonVersion \o <<"3", ".", "1", "0">>

BarePool == {TokA, TokEmpty, TokSpace, TokFlagsOnly, TokUpgradeOnly,
             TokCondaOnly, TokMingwOnly, TokPlatformOnly, TokVersionOnly,
             TokNoOpOnly}

BareSets(n) ==
    {s \in SUBSET BarePool : Cardinality(s) >= 1 /\ Cardinality(s) <= n}

InitBare ==
    /\ \E e \in Environments :
          \E tokens \in BareSets(MaxReqs) : Entered(e, tokens)
    /\ version_info \in {<<3, 9, 0>>, <<3, 11, 2>>}
    /\ extra_index_url \in {<<>>, Urls(MaxExtra)}

SpecBare == InitBare /\ [][Next]_vars

----------------------------------------------------------------------------
(* C22: a directive whose token contains no base package expression (only  *)
(* flags or empty sub-tokens) and no alias for the active backend causes   *)
(* no package-manager invocation on any backend and no report entry, and   *)
(* processing continues with the next directive.                           *)

\* a sub-token that is one of the flags of the requirement syntax
RecognisedFlag(s) ==
    \/ s \in {FlagNoDeps, FlagOnlyBinary, FlagPre, FlagPreferBinary,
              FlagUpgrade}
    \/ \E prefix \in {FlagConda, FlagMingw, FlagPlatform, FlagPythonVersion} :
          StartsWith(s, prefix)

\* the flag of the alias of the backend in use, if it has one
ActiveAliasFlags ==
    IF Backend = "conda" THEN {FlagConda}
    ELSE IF Backend = "mingw" THEN {FlagMingw}
    ELSE {}

\* only flags or empty sub-tokens, none of them the active backend's alias
Bare(token) ==
    LET parts == Split(token, " ")
    IN  \A i \in 1..Len(parts) :
           /\ parts[i] = <<>> \/ RecognisedFlag(parts[i])
           /\ \A flag \in ActiveAliasFlags : ~StartsWith(parts[i], flag)

\* no command is run for such a token and none of the batches holds it
C22_BareRunsNothing ==
    /\ \A i \in 1..Len(log) : log[i].req = None \/ ~Bare(log[i].req)
    /\ \A i \in 1..Len(batch_reqs) : ~Bare(batch_reqs[i])
    /\ pc \in {"conda_search", "conda_install", "pacman_search",
               "pacman_install", "pip", "pip_retry"} => ~Bare(req[1])

\* the iteration that takes such a token changes neither the report nor
\* the batches and ends at the head of the loop; the one way out of the
\* loop is the error of a version constraint written without a comparison
\* operator, which aborts the call for every directive that carries it
C22_BareStep ==
    \A token \in requires :
        (Bare(token) /\ requires' = requires \ {token}) =>
            /\ req' = Some(token)
            /\ installed_packages' = installed_packages
            /\ pip_pkgs' = pip_pkgs
            /\ conda_pkgs' = conda_pkgs
            /\ log' = log
            /\ args' = NoCommand
            /\ IF \E text \in VersionTexts(token) :
                     text # <<>> /\ ReSplit(text)[1] \notin ComparisonOps
               THEN pc' \in {"loop", "raised"}
               ELSE pc' = "loop"

C22_WitnessReturn ==
    /\ call.requires = {TokFlagsOnly, TokEmpty}
    /\ pc = "done"
    /\ ret = Some(<<>>)
    /\ log = <<>>

----------------------------------------------------------------------------
(* install_requirements on tokens with a pacman alias, with and without a  *)
(* flag that pip translates.                                               *)

NameK == <<"k">>
NameZ == <<"z">>

TokKAliasPre == Join(<<NameK, FlagMingw \o NameZ, FlagPre>>, " ")

AliasPool == {TokA, TokHAliases, TokKAliasPre}

AliasSets(n) ==
    {s \in SUBSET AliasPool : Cardinality(s) >= 1 /\ Cardinality(s) <= n}

InitAlias ==
    /\ \E e \in Environments :
          \E tokens \in AliasSets(ReqLimit(e)) : Entered(e, tokens)
    /\ version_info = <<3, 11, 2>>
    /\ extra_index_url \in {<<>>, Urls(MaxExtra)}

SpecAlias == InitAlias /\ [][Next]_vars

----------------------------------------------------------------------------
(* C23: when a posix-bridge directive that carries a non-empty "--mingw="  *)
(* alias falls through to the standard installer, the requirement passed   *)
(* to the standard installer (and recorded on success) is the directive's  *)
(* base package expression, not the bridge alias.                          *)

\* the token is written with a base package expression and a pacman alias
HasMingwAlias(token) ==
    /\ ParseReq(token).require # None
    /\ ParseReq(token).alias_for_mingw # None
    /\ ParseReq(token).alias_for_mingw[1] # <<>>

BaseExpression(token) == ParseReq(token).require[1].name
MingwAlias(token) == ParseReq(token).alias_for_mingw[1]

\* the requirement a pip command names for the token: the one argument of
\* the directive's own command, or its place in the batch
PassedToPip(e, token) ==
    IF e.req # None
    THEN {NamesOf(e.argv)[k] : k \in 1..Len(NamesOf(e.argv))}
    ELSE {NamesOf(e.argv)[k] :
             k \in {j \in 1..Len(batch_reqs) : batch_reqs[j] = token}}

\* every pip command for an aliased directive under pacman names `name`
\* alone for it, and a successful one has put `name` into the report
PipNames(name(_)) ==
    Backend = "mingw" =>
        \A i \in 1..Len(log) :
            \A token \in Served(log[i]) :
                (IsPip(log[i]) /\ HasMingwAlias(token)) =>
                    /\ PassedToPip(log[i], token) = {name(token)}
                    /\ log[i].rc = 0 =>
                          name(token) \in Elems(installed_packages)

\* C23 as stated
C23_PipGetsTheBaseExpression == PipNames(BaseExpression)

\* C23, what the code does: the alias has replaced `require` before the
\* candidates are searched, and pip is given what `require` then holds
C23_PipGetsTheAlias == PipNames(MingwAlias)

\* no candidate of "x" was found, and the batch has installed "x"
C23_Witness ==
    /\ Backend = "mingw"
    /\ call.requires = {TokHAliases}
    /\ pc = "done"
    /\ \E i \in BatchRuns : NamesOf(log[i].argv) = <<NameX>> /\ log[i].rc = 0
    /\ NameX \in Elems(installed_packages)
    /\ NameH \notin Elems(installed_packages)

\* the same for a directive with --pre, which has its own command
C23_WitnessOwnCommand ==
    /\ Backend = "mingw"
    /\ call.requires = {TokKAliasPre}
    /\ pc = "done"
    /\ \E i \in 1..Len(log) :
          /\ IsPip(log[i])
          /\ log[i].req = Some(TokKAliasPre)
          /\ NamesOf(log[i].argv) = <<NameZ>>
          /\ log[i].rc = 0
    /\ NameZ \in Elems(installed_packages)

----------------------------------------------------------------------------
(* C24: for every package name, the posix-bridge candidate list is the     *)
(* same on every call and contains no name twice, so within one directive  *)
(* no candidate is searched more than once.                                *)

HasDuplicate(list) ==
    \E i, j \in 1..Len(list) : i < j /\ list[i] = list[j]

HasLetter(s) ==
    \E i \in 1..Len(s) : s[i] \in Elems(LowerLetters) \cup Elems(UpperLetters)

\* C24 as stated, for the list: the list of "7" is python-7, 7, python-7, 7
C24_NoCandidateTwice ==
    (call.fn = "packages" /\ ret # Pending) => ~HasDuplicate(ret[1])

\* C24, what the code does: the list depends on the name alone, and it
\* holds a name twice (every name, in fact) exactly when the name has no
\* letter, because of the lowercased copies of C15
C24_TwiceOnlyWithoutLetter ==
    (call.fn = "packages" /\ ret # Pending) =>
        /\ ret[1] = CandidateNames(call.package)
        /\ HasDuplicate(ret[1]) <=> ~HasLetter(call.package)
        /\ ~HasLetter(call.package) =>
              \A i \in 1..Len(ret[1]) :
                  \E j \in 1..Len(ret[1]) : j # i /\ ret[1][j] = ret[1][i]

\* C24 as stated, for the searches of one directive
C24_NoCandidateSearchedTwice ==
    \A i, j \in 1..Len(log) :
        (/\ i < j
         /\ log[i].prog = "pacman_search"
         /\ log[j].prog = "pacman_search"
         /\ log[i].req = log[j].req) => log[i].argv # log[j].argv

\* the searches of a directive are the candidates of its name in order,
\* each list position once
C24_SearchesFollowTheList ==
    \A token \in call.requires :
        (Backend = "mingw" /\ Searches(token) # {}) =>
            LET list == CandidateNames(Directive(token).require[1].name)
                done == Cardinality(Searches(token))
            IN  /\ done <= Len(list)
                /\ \A i \in Searches(token) :
                      LET k == Cardinality({j \in Searches(token) : j <= i})
                      IN  log[i].argv[Len(log[i].argv)]
                              = MingwPackage(list[k])

\* the list of "7" has been built
C24_Witness ==
    /\ call.fn = "packages"
    /\ call.package = Name7
    /\ ret = Some(<<PythonDash \o Name7, Name7, PythonDash \o Name7, Name7>>)

====
